---- MODULE Spec2Model ----
(***************************************************************************)
(* LitePad (src-tauri/src/main.rs): the content-addressed image store, the *)
(* migration of legacy images into it, and the zip backup engine with its  *)
(* retention pruning.                                                      *)
(*                                                                         *)
(* Strings are sequences of tokens (a token is a short TLA+ string), so    *)
(* format!(), starts_with, replace and the filename sort are computed on   *)
(* the text.  File contents are sequences of bytes.  A directory is a      *)
(* function from the names of the files it holds to their contents.        *)
(***************************************************************************)
EXTENDS Integers, Sequences, FiniteSets, TLC

VARIABLES
    images,          \* blob store directory (AppState.images_path): name -> bytes
    oldFiles,        \* legacy image files outside the store: path -> bytes
    migrated,        \* history: the latest successful migrations, of two different paths
    backupSettings,  \* "backupSettings" of config.json, as perform_backup reads it
    dirExists,       \* whether the configured backup directory exists on disk
    backups,         \* backup directory: file name -> archive file
    clock,           \* Local::now(), in seconds
    bk,              \* perform_backup calls in flight: position and locals
    last,            \* the last completed command: name, arguments, result, files written
    made,            \* the last successful perform_backup: file name, snapshot, files of the store
    faults,          \* I/O failures the environment may still inject
    mutex,           \* the owner of the Mutex<AppState>, FREE when it is unlocked
    th,              \* image and restore commands running on their own threads: position and locals
    SHORTCUT_HELD,   \* static SHORTCUT_HELD: AtomicBool
    toggled          \* history: the shortcut events so far, whether each called toggle_window, the window after it

vars == <<images, oldFiles, migrated, backupSettings, dirExists, backups, clock, bk, last, made, faults,
          mutex, th, SHORTCUT_HELD, toggled>>

\* What the commands modelled as one step neither read nor change
restVars == <<mutex, th, SHORTCUT_HELD, toggled>>

----------------------------------------------------------------------------
(* Bounds *)

MaxBlobs == 2
MaxFaults == 1
MaxTime == 3
MaxKeep == 2
MaxStamp == 11
MaxEvents == 6
MaxPatch == 1

----------------------------------------------------------------------------
(* Text and bytes *)

Byte == {1, 2}

Buffers == {<<1>>, <<2>>, <<1, 2>>}

EXT_PNG == <<".", "png">>
EXT_JPG == <<".", "jpg">>
Exts == {EXT_PNG, EXT_JPG}

HexDigit == <<"0", "1", "2", "3", "4", "5", "6", "7", "8", "9", "a", "b", "c", "d", "e", "f">>

RECURSIVE ByteCode(_)
ByteCode(buffer) ==
    IF buffer = <<>> THEN 0
    ELSE ByteCode(SubSeq(buffer, 1, Len(buffer) - 1)) * 3 + buffer[Len(buffer)]

\* hex::encode(Sha256(buffer)): a fixed-width lowercase hex string, one per content
\* (SHA-256 is taken to be collision free; the width is 2 digits instead of 64).
Sha256Hex(buffer) ==
    LET d == (ByteCode(buffer) * 7 + 3) % 256
    IN  <<HexDigit[(d \div 16) + 1], HexDigit[(d % 16) + 1]>>

StartsWith(s, p) == Len(s) >= Len(p) /\ SubSeq(s, 1, Len(p)) = p
EndsWith(s, p) == Len(s) >= Len(p) /\ SubSeq(s, Len(s) - Len(p) + 1, Len(s)) = p
StripPrefix(s, p) == SubSeq(s, Len(p) + 1, Len(s))

IsPrefix(p, s) == Len(p) <= Len(s) /\ SubSeq(s, 1, Len(p)) = p

\* str::replace(from, to) for a one-token pattern
Replace(s, from, to) == [i \in 1..Len(s) |-> IF s[i] = from THEN to ELSE s[i]]

----------------------------------------------------------------------------
(* Files *)

NoFiles == <<>>

Put(dir, name, bytes) ==
    [n \in (DOMAIN dir) \cup {name} |-> IF n = name THEN bytes ELSE dir[n]]

Remove(dir, name) == [n \in (DOMAIN dir) \ {name} |-> dir[n]]

\* What one fs::write / File::create + write_all can do: all of it; nothing, when the
\* file cannot be created; or, when a write fails after the file was created and
\* truncated, only the first n bytes.
WriteOutcomes(bytes) ==
    {[kind |-> "ok", n |-> Len(bytes)]}
    \cup (IF faults > 0
          THEN {[kind |-> "create_failed", n |-> 0]}
               \cup {[kind |-> "partial", n |-> k] : k \in 0..(Len(bytes) - 1)}
          ELSE {})

FsWrite(dir, name, bytes, o) ==
    IF o.kind = "create_failed" THEN dir ELSE Put(dir, name, SubSeq(bytes, 1, o.n))

FaultsAfter(o) == IF o.kind = "ok" THEN faults ELSE faults - 1

Ok(v) == [ok |-> TRUE, val |-> v]
Err(e) == [ok |-> FALSE, err |-> e]

NoCall == [op |-> "none", args |-> <<>>, result |-> Err(<<"none">>), writes |-> {}, repeat |-> FALSE]

Call(op, args, result, writes) ==
    [op |-> op, args |-> args, result |-> result, writes |-> writes,
     repeat |-> last.op = op /\ last.args = args /\ last.result.ok]

----------------------------------------------------------------------------
(* Paths *)

SEP == "\\"

ImagesPath == <<"data", SEP, "images">>

\* PathBuf::join of a relative name, then to_string_lossy
PathJoin(base, rel) == base \o <<SEP>> \o rel

\* str::replace("\\\\", "\\"): left to right, non-overlapping
RECURSIVE CollapseBackslashes(_)
CollapseBackslashes(s) ==
    IF Len(s) < 2 THEN s
    ELSE IF s[1] = SEP /\ s[2] = SEP
         THEN <<SEP>> \o CollapseBackslashes(SubSeq(s, 3, Len(s)))
         ELSE <<s[1]>> \o CollapseBackslashes(Tail(s))

NormalizeOldPath(old_path) == CollapseBackslashes(Replace(old_path, "/", SEP))

LastIndexOf(s, tok) ==
    LET hits == {i \in 1..Len(s) : s[i] = tok}
    IN  IF hits = {} THEN 0 ELSE CHOOSE i \in hits : \A j \in hits : j <= i

FileNameOf(path) == SubSeq(path, LastIndexOf(path, SEP) + 1, Len(path))

\* Path::extension(): the part of the file name after its last '.', none when the
\* name has no '.' or only a leading one.  <<>> stands for None.
HasExtension(path) == LastIndexOf(FileNameOf(path), ".") > 1

ExtensionOf(path) ==
    LET name == FileNameOf(path)
    IN  SubSeq(name, LastIndexOf(name, ".") + 1, Len(name))

MigratedExt(path) == IF HasExtension(path) THEN <<".">> \o ExtensionOf(path) ELSE EXT_PNG

\* The file a path string names (Path::new(..).exists(), fs::read): '/' and '\' both
\* separate, repeated separators count once, except that two leading ones start a
\* network path (\\server\share\..).
RECURSIVE CollapseRuns(_)
CollapseRuns(s) ==
    IF Len(s) < 2 THEN s
    ELSE IF s[1] = SEP /\ s[2] = SEP THEN CollapseRuns(Tail(s))
    ELSE <<s[1]>> \o CollapseRuns(Tail(s))

OsResolve(path) ==
    LET q == Replace(path, "/", SEP)
    IN  IF Len(q) >= 2 /\ q[1] = SEP /\ q[2] = SEP
        THEN <<SEP>> \o CollapseRuns(Tail(q))
        ELSE CollapseRuns(q)

NO_FILE == <<-1>>

StorePrefix == ImagesPath \o <<SEP>>

\* The bytes of the file named file, which is a legacy file or a file of the store;
\* NO_FILE when there is none
SourceBytes(store, old, file) ==
    IF file \in DOMAIN old THEN old[file]
    ELSE IF IsPrefix(StorePrefix, file) /\ StripPrefix(file, StorePrefix) \in DOMAIN store
    THEN store[StripPrefix(file, StorePrefix)]
    ELSE NO_FILE

FileAt(file) == SourceBytes(images, oldFiles, file)

----------------------------------------------------------------------------
(* Image store commands *)

backupVars == <<backupSettings, dirExists, backups, clock, bk, made, restVars>>

ImageUrl(hash, ext) == <<"litepad://images/">> \o hash \o ext

\* The model holds at most MaxBlobs files in the store.
Room(filename) == filename \in DOMAIN images \/ Cardinality(DOMAIN images) < MaxBlobs

\* if !file_path.exists() { fs::write(&file_path, &buffer)? }, or the bare fs::write
\* when only_if_absent is FALSE; then the command returns val.
StoreBlob(op, args, filename, buffer, val, only_if_absent) ==
    IF only_if_absent /\ filename \in DOMAIN images
    THEN /\ last' = Call(op, args, Ok(val), {})
         /\ UNCHANGED <<images, faults>>
    ELSE \E o \in WriteOutcomes(buffer) :
            /\ Room(filename)
            /\ images' = FsWrite(images, filename, buffer, o)
            /\ faults' = FaultsAfter(o)
            /\ last' = Call(op, args,
                            IF o.kind = "ok" THEN Ok(val) ELSE Err(<<"io">>),
                            IF o.kind = "create_failed" THEN {} ELSE {filename})

SaveImageResult(hash, ext, buffer) ==
    [hash |-> hash, url |-> ImageUrl(hash, ext), size |-> Len(buffer), ext |-> ext]

save_image_always_writes(buffer, ext) ==
    LET hash == Sha256Hex(buffer)
    IN  /\ StoreBlob("save_image", <<buffer, ext>>, hash \o ext, buffer,
                     SaveImageResult(hash, ext, buffer), FALSE)
        /\ UNCHANGED <<oldFiles, migrated, backupVars>>

save_image(buffer, ext) ==
    LET hash == Sha256Hex(buffer)
        filename == hash \o ext
    IN  /\ StoreBlob("save_image", <<buffer, ext>>, filename, buffer,
                     SaveImageResult(hash, ext, buffer), TRUE)
        /\ UNCHANGED <<oldFiles, migrated, backupVars>>

\* What save_image(buffer, ext) can make of the store as it is, and whether it then
\* returns its descriptor
SaveImageOutcomes(buffer, ext) ==
    LET filename == Sha256Hex(buffer) \o ext
    IN  IF filename \in DOMAIN images
        THEN {[store |-> images, ok |-> TRUE]}
        ELSE {[store |-> FsWrite(images, filename, buffer, o), ok |-> o.kind = "ok"] :
                 o \in WriteOutcomes(buffer)}

HashMismatch(hash, computed_hash) ==
    <<"Hash mismatch: expected ">> \o hash \o <<", got ">> \o computed_hash

save_downloaded_image_write_first(hash, ext, buffer) ==
    LET filename == hash \o ext
        computed_hash == Sha256Hex(buffer)
    IN  /\ \E o \in WriteOutcomes(buffer) :
              /\ Room(filename)
              /\ images' = FsWrite(images, filename, buffer, o)
              /\ faults' = FaultsAfter(o)
              /\ last' = Call("save_downloaded_image", <<hash, ext, buffer>>,
                              IF computed_hash # hash THEN Err(HashMismatch(hash, computed_hash))
                              ELSE IF o.kind = "ok" THEN Ok(PathJoin(ImagesPath, filename))
                              ELSE Err(<<"io">>),
                              {})
        /\ UNCHANGED <<oldFiles, migrated, backupVars>>

save_downloaded_image(hash, ext, buffer) ==
    LET filename == hash \o ext
        computed_hash == Sha256Hex(buffer)
    IN  /\ IF computed_hash # hash
           THEN /\ last' = Call("save_downloaded_image", <<hash, ext, buffer>>,
                                Err(HashMismatch(hash, computed_hash)), {})
                /\ UNCHANGED <<images, faults>>
           ELSE StoreBlob("save_downloaded_image", <<hash, ext, buffer>>, filename, buffer,
                          PathJoin(ImagesPath, filename), FALSE)
        /\ UNCHANGED <<oldFiles, migrated, backupVars>>

MigrateImageResult(hash, ext, buffer) ==
    [hash |-> hash, ext |-> ext, size |-> Len(buffer), new_url |-> ImageUrl(hash, ext)]

\* The history of migrations after a call of old_path that returned val
Migrated(old_path, val) ==
    LET entry == [old_path |-> old_path, val |-> val]
    IN  IF migrated = <<>> THEN <<entry>>
        ELSE IF migrated[Len(migrated)].old_path = old_path
        THEN [migrated EXCEPT ![Len(migrated)] = entry]
        ELSE <<migrated[Len(migrated)], entry>>

\* keep_source: whether the legacy file is left where it is; only_if_absent: whether
\* the blob is written only when the store has no file of its name
MigrateOldImage(old_path, keep_source, only_if_absent) ==
    LET path == NormalizeOldPath(old_path)
        file == OsResolve(path)
    IN  /\ IF FileAt(file) = NO_FILE
           THEN /\ last' = Call("migrate_old_image", <<old_path>>, Err(<<"not found: ">> \o path), {})
                /\ UNCHANGED <<images, oldFiles, migrated, faults>>
           ELSE \/ \* fs::read fails
                   /\ faults > 0
                   /\ faults' = faults - 1
                   /\ last' = Call("migrate_old_image", <<old_path>>, Err(<<"read">>), {})
                   /\ UNCHANGED <<images, oldFiles, migrated>>
                \/ LET buffer == FileAt(file)
                       hash == Sha256Hex(buffer)
                       ext == MigratedExt(path)
                   IN  /\ StoreBlob("migrate_old_image", <<old_path>>, hash \o ext, buffer,
                                    MigrateImageResult(hash, ext, buffer), only_if_absent)
                       /\ oldFiles' = IF keep_source THEN oldFiles ELSE Remove(oldFiles, file)
                       /\ migrated' = IF last'.result.ok
                                      THEN Migrated(old_path, last'.result.val)
                                      ELSE migrated
        /\ UNCHANGED backupVars

migrate_old_image_moves_source(old_path) == MigrateOldImage(old_path, FALSE, TRUE)

migrate_old_image_always_writes(old_path) == MigrateOldImage(old_path, TRUE, FALSE)

migrate_old_image(old_path) == MigrateOldImage(old_path, TRUE, TRUE)

\* paths.iter().map(|p| Path::new(&normalised p).exists()).collect()
check_old_images_exist(paths) ==
    /\ last' = Call("check_old_images_exist", <<paths>>,
                    Ok([i \in 1..Len(paths) |->
                           FileAt(OsResolve(NormalizeOldPath(paths[i]))) # NO_FILE]), {})
    /\ UNCHANGED <<images, oldFiles, migrated, faults, backupVars>>

\* Inputs
ClaimedHashes == {Sha256Hex(b) : b \in Buffers} \cup {<<"d", "e">>}

OLD_A == <<"C:", "/", "old", "/", "a", ".", "png">>
OLD_B == <<"C:", SEP, "old", SEP, "b">>
OLD_GONE == <<"C:", SEP, "old", SEP, "gone", ".", "png">>
OldPaths == {OLD_A, OLD_B, OLD_GONE}

InitOldFiles ==
    [p \in {NormalizeOldPath(OLD_A), OLD_B} |-> IF p = OLD_B THEN <<2>> ELSE <<1>>]

----------------------------------------------------------------------------
(* Backup archives *)

NONE == <<>>

\* The one backup directory the settings can name (BackupSettings.backup_directory)
BACKUP_DIR == <<"D:", SEP, "Backups">>

SettingsDomain == [backup_directory : {NONE, BACKUP_DIR}, max_backups : 0..MaxKeep]

Digit == <<"0", "1", "2", "3", "4", "5", "6", "7", "8", "9">>

\* a format without the zero padding (%-S)
FormatTimestamp_unpadded(t) ==
    IF t < 10 THEN <<Digit[t + 1]>> ELSE <<Digit[(t \div 10) + 1], Digit[(t % 10) + 1]>>

\* Local::now().format("%Y%m%d_%H%M%S"): fixed width, zero padded
FormatTimestamp(t) == <<Digit[(t \div 10) + 1], Digit[(t % 10) + 1]>>

BackupName(t) == <<"litepad_backup_">> \o FormatTimestamp(t) \o <<".zip">>

IsBackupName(name) == StartsWith(name, <<"litepad_backup_">>) /\ EndsWith(name, <<".zip">>)

\* Byte order of the tokens that occur in file names
AsciiOrder ==
    <<".", ".txt", ".zip", "/", "0", "1", "2", "3", "4", "5", "6", "7", "8", "9", "D:",
      SEP, "a", "b", "c", "d", "e", "f", "jpg", "litepad_backup_", "notes", "pic", "png", "sub">>

Rank(tok) == CHOOSE i \in 1..Len(AsciiOrder) : AsciiOrder[i] = tok

\* OsString::cmp: lexicographic
RECURSIVE StrLess(_, _)
StrLess(a, b) ==
    IF b = <<>> THEN FALSE
    ELSE IF a = <<>> THEN TRUE
    ELSE IF a[1] # b[1] THEN Rank(a[1]) < Rank(b[1])
    ELSE StrLess(Tail(a), Tail(b))

\* backups.sort_by(|a, b| b.file_name().cmp(&a.file_name()))
RECURSIVE SortDesc(_)
SortDesc(names) ==
    IF names = {} THEN <<>>
    ELSE LET top == CHOOSE n \in names : \A m \in names \ {n} : StrLess(m, n)
         IN  <<top>> \o SortDesc(names \ {top})

\* backups.iter().skip(max_backups)
Skip(seq, n) == IF n >= Len(seq) THEN <<>> ELSE SubSeq(seq, n + 1, Len(seq))

Range(seq) == {seq[i] : i \in 1..Len(seq)}

RECURSIVE SortAsc(_)
SortAsc(names) ==
    IF names = {} THEN <<>>
    ELSE LET low == CHOOSE n \in names : \A m \in names \ {n} : StrLess(n, m)
         IN  <<low>> \o SortAsc(names \ {low})

ExcessBackups_oldest_first(dir, max_backups) ==
    Range(Skip(SortAsc({n \in DOMAIN dir : IsBackupName(n)}), max_backups))

\* cleanup_old_backups: the files it tries to remove
ExcessBackups(dir, max_backups) ==
    Range(Skip(SortDesc({n \in DOMAIN dir : IsBackupName(n)}), max_backups))

\* Snapshot texts: sequences of code points ('A' and e-acute)
Snapshots == {<<65>>, <<233, 65>>}

\* str::as_bytes: UTF-8
RECURSIVE Utf8Encode(_)
Utf8Encode(text) ==
    IF text = <<>> THEN <<>>
    ELSE (IF text[1] < 128 THEN <<text[1]>>
          ELSE <<192 + (text[1] \div 64), 128 + (text[1] % 64)>>)
         \o Utf8Encode(Tail(text))

\* Read::read_to_string: the text, or <<-1>> when the bytes are not UTF-8
RECURSIVE Utf8Decode(_)
Utf8Decode(bytes) ==
    IF bytes = <<>> THEN <<>>
    ELSE IF bytes[1] < 128
         THEN (LET rest == Utf8Decode(Tail(bytes))
               IN  IF rest = <<-1>> THEN rest ELSE <<bytes[1]>> \o rest)
    ELSE IF bytes[1] >= 192 /\ bytes[1] < 224 /\ Len(bytes) >= 2
            /\ bytes[2] >= 128 /\ bytes[2] < 192
         THEN (LET rest == Utf8Decode(SubSeq(bytes, 3, Len(bytes)))
               IN  IF rest = <<-1>> THEN rest
                   ELSE <<(bytes[1] - 192) * 64 + (bytes[2] - 128)>> \o rest)
    ELSE <<-1>>

DATA_JSON == <<"data.json">>
IMAGES_PREFIX == <<"images", "/">>

\* format!("images/{}", relative.to_string_lossy().replace('\\', "/"))
ZipPathStr(relative) == IMAGES_PREFIX \o Replace(relative, SEP, "/")

\* images_path.join(relative): the file of the store the entry goes to
DestPath(relative) == Replace(relative, "/", SEP)

FREE == <<>>

Threads == {1, 2}

IdleThread ==
    [op |-> "none", pc |-> "idle", filename |-> <<>>, buffer |-> <<>>, entries |-> <<>>, i |-> 0]

\* No command on a thread of its own, the mutex unlocked, the shortcut not held
InitRest ==
    /\ mutex = FREE
    /\ th = [t \in Threads |-> IdleThread]
    /\ SHORTCUT_HELD = FALSE
    /\ toggled = <<>>

\* No successful perform_backup yet.  valid: the archive is still as that call left
\* it; calls: successful calls since the settings or the directory were last changed
\* by hand (counted up to MaxKeep); count: the same, calls of one second counted once.
NoBackup ==
    [filename |-> NONE, data |-> <<>>, files |-> NoFiles, valid |-> FALSE, calls |-> 0, count |-> 0]

----------------------------------------------------------------------------
(* perform_backup, one step at a time *)

blobVars == <<images, oldFiles, migrated, restVars>>

IdleCall ==
    [pc |-> "idle", data |-> <<>>, max_backups |-> 0, filename |-> NONE, snap |-> NoFiles,
     done |-> {}, log |-> <<>>, before |-> NoFiles, excess |-> {}, kept |-> {}]

AllIdle == \A p \in DOMAIN bk : bk[p].pc = "idle"

NewArchive(name) ==
    [finished |-> FALSE, entries |-> <<>>,
     created_at |-> IF name \in DOMAIN backups THEN backups[name].created_at ELSE clock]

AddEntry(archive, name, bytes) ==
    [archive EXCEPT !.entries = Append(@, [name |-> name, bytes |-> bytes])]

\* The command returns Err: the call is over, its ZipWriter (if any) is dropped.
BackupReturnsErr(p, err) ==
    /\ bk' = [bk EXCEPT ![p].pc = "idle"]
    /\ last' = Call("perform_backup", <<bk[p].data>>, Err(err), {})

\* A write into the archive fails after k bytes of the entry; the dropped ZipWriter
\* then tries to finalize the archive, which may or may not succeed.
EntryWriteFails(p, name, bytes) ==
    /\ faults > 0
    /\ faults' = faults - 1
    /\ \E k \in 0..(Len(bytes) - 1), closed \in BOOLEAN :
          backups' = [backups EXCEPT ![bk[p].filename] =
                         [AddEntry(@, name, SubSeq(bytes, 1, k)) EXCEPT !.finished = closed]]
    /\ BackupReturnsErr(p, <<"io">>)
    /\ UNCHANGED <<blobVars, backupSettings, dirExists, clock, made>>

\* mkdir_first: whether the directory is made before the settings are looked at
StartBackup(p, data, mkdir_first) ==
    /\ bk[p].pc = "idle"
    /\ IF backupSettings.backup_directory = NONE
       THEN /\ last' = Call("perform_backup", <<data>>, Err(<<"Backup directory not configured">>), {})
            /\ dirExists' = (dirExists \/ mkdir_first)
            /\ UNCHANGED <<blobVars, backupSettings, backups, clock, bk, made, faults>>
       ELSE \/ \* the directory exists or create_dir_all makes it; the name is generated
               /\ dirExists' = TRUE
               /\ bk' = [bk EXCEPT ![p] =
                            [IdleCall EXCEPT !.pc = "path", !.data = data,
                                             !.max_backups = backupSettings.max_backups,
                                             !.filename = BackupName(clock),
                                             !.snap = images]]
               /\ made' = [NoBackup EXCEPT !.filename = made.filename, !.calls = made.calls,
                                        !.count = made.count]
               /\ UNCHANGED <<blobVars, backupSettings, backups, clock, last, faults>>
            \/ \* create_dir_all fails
               /\ ~dirExists
               /\ faults > 0
               /\ faults' = faults - 1
               /\ last' = Call("perform_backup", <<data>>, Err(<<"io">>), {})
               /\ UNCHANGED <<blobVars, backupVars>>

perform_backup_start_mkdir_first(p, data) == StartBackup(p, data, TRUE)

perform_backup_start(p, data) == StartBackup(p, data, FALSE)

Owner(op, id) == <<op, id>>

\* let images_path = { let state = state.lock().unwrap(); state.images_path.clone() };
\* hold: whether the guard outlives the block
LockForPath(p, hold) ==
    /\ bk[p].pc = "path"
    /\ mutex = FREE
    /\ mutex' = IF hold THEN Owner("perform_backup", p) ELSE FREE
    /\ bk' = [bk EXCEPT ![p].pc = "create"]
    /\ UNCHANGED <<images, oldFiles, migrated, backupSettings, dirExists, backups, clock,
                   last, made, faults, th, SHORTCUT_HELD, toggled>>

perform_backup_path_keeps_guard(p) == LockForPath(p, TRUE)

perform_backup_path(p) == LockForPath(p, FALSE)

\* fs::File::create(&zip_path)
perform_backup_create(p) ==
    /\ bk[p].pc = "create"
    /\ \/ /\ backups' = Put(backups, bk[p].filename, NewArchive(bk[p].filename))
          /\ bk' = [bk EXCEPT ![p].pc = "data", ![p].log = Append(@, "create")]
          /\ UNCHANGED <<last, faults>>
       \/ /\ faults > 0
          /\ faults' = faults - 1
          /\ BackupReturnsErr(p, <<"io">>)
          /\ UNCHANGED backups
    /\ UNCHANGED <<blobVars, backupSettings, dirExists, clock, made>>

\* zip.start_file("data.json"); zip.write_all(data.as_bytes())
perform_backup_data(p) ==
    /\ bk[p].pc = "data"
    /\ \/ /\ backups' = [backups EXCEPT ![bk[p].filename] =
                            AddEntry(@, DATA_JSON, Utf8Encode(bk[p].data))]
          /\ bk' = [bk EXCEPT ![p].pc = "images", ![p].log = Append(@, "data.json")]
          /\ UNCHANGED <<blobVars, backupSettings, dirExists, clock, made, last, faults>>
       \/ EntryWriteFails(p, DATA_JSON, Utf8Encode(bk[p].data))

\* WalkDir yields the files of the store in the order of the directory listing,
\* here by name.
ToWalk(p) == SortAsc((DOMAIN images) \ bk[p].done)

\* one iteration of the WalkDir loop
perform_backup_image(p) ==
    /\ bk[p].pc = "images"
    /\ ToWalk(p) # <<>>
    /\ LET path == Head(ToWalk(p))
       IN  \/ /\ backups' = [backups EXCEPT ![bk[p].filename] =
                                AddEntry(@, ZipPathStr(path), images[path])]
              /\ bk' = [bk EXCEPT ![p].done = @ \cup {path}, ![p].log = Append(@, "image")]
              /\ UNCHANGED <<blobVars, backupSettings, dirExists, clock, made, last, faults>>
           \/ EntryWriteFails(p, ZipPathStr(path), images[path])

\* zip.finish()
perform_backup_finish(p) ==
    /\ bk[p].pc = "images"
    /\ ToWalk(p) = <<>>
    /\ \/ /\ backups' = [backups EXCEPT ![bk[p].filename].finished = TRUE]
          /\ bk' = [bk EXCEPT ![p].pc = "cleanup", ![p].log = Append(@, "finish")]
          /\ UNCHANGED <<last, faults>>
       \/ /\ faults > 0
          /\ faults' = faults - 1
          /\ BackupReturnsErr(p, <<"io">>)
          /\ UNCHANGED backups
    /\ UNCHANGED <<blobVars, backupSettings, dirExists, clock, made>>

Min(a, b) == IF a < b THEN a ELSE b

ArchiveTimes(dir) == [n \in {m \in DOMAIN dir : IsBackupName(m)} |-> dir[n].created_at]

\* cleanup_old_backups(&backup_dir, settings.max_backups)?; Ok(filename)
\* at: the positions of the call at which pruning may run; swallow: whether a failed
\* fs::remove_file is ignored (let _ =) or ends the loop.
Cleanup(p, at, swallow) ==
    /\ bk[p].pc \in at
    /\ \/ LET excess == ExcessBackups(backups, bk[p].max_backups)
          IN  \E kept \in SUBSET excess :
                 \* kept: the files whose fs::remove_file fails
                 /\ Cardinality(kept) <= faults
                 /\ faults' = faults - Cardinality(kept)
                 /\ backups' = IF swallow \/ kept = {}
                               THEN [n \in (DOMAIN backups) \ (excess \ kept) |-> backups[n]]
                               ELSE backups
                 /\ bk' = [bk EXCEPT ![p].pc = "idle", ![p].log = Append(@, "cleanup"),
                                     ![p].before = ArchiveTimes(backups),
                                     ![p].excess = excess, ![p].kept = kept]
                 /\ last' = Call("perform_backup", <<bk[p].data>>, Ok(bk[p].filename), {})
                 /\ made' = [filename |-> bk[p].filename, data |-> bk[p].data,
                             files |-> bk[p].snap, valid |-> TRUE,
                             calls |-> Min(made.calls + 1, MaxKeep),
                             count |-> IF made.filename = bk[p].filename THEN made.count
                                       ELSE Min(made.count + 1, MaxKeep)]
       \/ \* fs::read_dir fails
          /\ faults > 0
          /\ faults' = faults - 1
          /\ BackupReturnsErr(p, <<"io">>)
          /\ UNCHANGED <<backups, made>>
    /\ UNCHANGED <<blobVars, backupSettings, dirExists, clock>>

perform_backup_cleanup_before_finish(p) == Cleanup(p, {"images", "cleanup"}, TRUE)

perform_backup_cleanup_stops_at_failure(p) == Cleanup(p, {"cleanup"}, FALSE)

perform_backup_cleanup(p) == Cleanup(p, {"cleanup"}, TRUE)

----------------------------------------------------------------------------
(* restore_backup and the other commands on the backup directory *)

IsImageEntry(name) == StartsWith(name, IMAGES_PREFIX) /\ ~EndsWith(name, <<"/">>)

\* Path::is_absolute of a path with a drive
IsAbsolute(path) == Len(path) >= 2 /\ path[1] = "C:" /\ path[2] = SEP

\* The file the system opens for a path with .. components: each .. takes back the
\* component before it
RECURSIVE ResolveDotsFrom(_, _)
ResolveDotsFrom(out, rest) ==
    IF rest = <<>> THEN out
    ELSE IF Head(rest) = ".." /\ Len(out) >= 2
    THEN ResolveDotsFrom(SubSeq(out, 1, Len(out) - 2),
                         IF Len(rest) >= 2 THEN Tail(Tail(rest)) ELSE <<>>)
    ELSE ResolveDotsFrom(Append(out, Head(rest)), Tail(rest))

ResolveDots(path) == ResolveDotsFrom(<<>>, path)

\* images_path.join(relative): an absolute relative replaces images_path
JoinImagesPath(relative) ==
    LET r == DestPath(relative)
    IN  IF IsAbsolute(r) THEN r ELSE ResolveDots(StorePrefix \o r)

\* whether the entry goes to a file under images_path
EntryInStore(name) == IsPrefix(StorePrefix, JoinImagesPath(StripPrefix(name, IMAGES_PREFIX)))

\* The file the entry goes to: its name in the store, or its path when it lies
\* outside the store
EntryDest(name) ==
    LET dest_path == JoinImagesPath(StripPrefix(name, IMAGES_PREFIX))
    IN  IF IsPrefix(StorePrefix, dest_path) THEN StripPrefix(dest_path, StorePrefix)
        ELSE dest_path

\* the entries the loop extracts that go into the store (or outside of it)
Extracts(name, inside) == IsImageEntry(name) /\ (EntryInStore(name) <=> inside)

\* an extraction loop that leaves the files the store already holds as they are
RECURSIVE Extract_keeps_existing(_, _, _)
Extract_keeps_existing(dir, entries, n) ==
    IF n = 0 THEN dir
    ELSE LET before == Extract_keeps_existing(dir, entries, n - 1)
             e == entries[n]
         IN  IF IsImageEntry(e.name) /\ EntryDest(e.name) \notin DOMAIN before
             THEN Put(before, EntryDest(e.name), e.bytes)
             ELSE before

\* The extraction loop over entries 1..n, all of them written in full
RECURSIVE Extract(_, _, _)
Extract(dir, entries, n) ==
    IF n = 0 THEN dir
    ELSE LET before == Extract(dir, entries, n - 1)
             e == entries[n]
         IN  IF Extracts(e.name, TRUE) THEN Put(before, EntryDest(e.name), e.bytes) ELSE before

\* What the loop over entries 1..n makes of the files outside the store
RECURSIVE ExtractOutside(_, _, _)
ExtractOutside(old, entries, n) ==
    IF n = 0 THEN old
    ELSE LET before == ExtractOutside(old, entries, n - 1)
             e == entries[n]
         IN  IF Extracts(e.name, FALSE) THEN Put(before, EntryDest(e.name), e.bytes) ELSE before

ExtractedNames(entries, n) ==
    {EntryDest(entries[i].name) : i \in {j \in 1..n : IsImageEntry(entries[j].name)}}

HasEntry(archive, name) == \E i \in 1..Len(archive.entries) : archive.entries[i].name = name

EntryBytes(archive, name) ==
    archive.entries[CHOOSE i \in 1..Len(archive.entries) : archive.entries[i].name = name].bytes

RestoreReturns(filename, result, writes) ==
    last' = Call("restore_backup", <<filename>>, result, writes)

\* data_first: whether data.json is read before the images are extracted
RestoreBackup(filename, data_first) ==
    /\ IF backupSettings.backup_directory = NONE
       THEN /\ RestoreReturns(filename, Err(<<"Backup directory not configured">>), {})
            /\ UNCHANGED <<images, oldFiles, faults>>
       ELSE IF filename \notin DOMAIN backups
       THEN /\ RestoreReturns(filename, Err(<<"open">>), {})
            /\ UNCHANGED <<images, oldFiles, faults>>
       ELSE IF ~backups[filename].finished
       THEN /\ RestoreReturns(filename, Err(<<"invalid archive">>), {})
            /\ UNCHANGED <<images, oldFiles, faults>>
       ELSE IF ~HasEntry(backups[filename], DATA_JSON)
       THEN LET entries == backups[filename].entries
                written == IF data_first THEN 0 ELSE Len(entries)
            IN  /\ RestoreReturns(filename, Err(<<"data.json not found">>),
                                  ExtractedNames(entries, written))
                /\ images' = Extract(images, entries, written)
                /\ oldFiles' = ExtractOutside(oldFiles, entries, written)
                /\ UNCHANGED faults
       ELSE IF Utf8Decode(EntryBytes(backups[filename], DATA_JSON)) = <<-1>>
       THEN /\ RestoreReturns(filename, Err(<<"not utf-8">>), {})
            /\ UNCHANGED <<images, oldFiles, faults>>
       ELSE LET entries == backups[filename].entries
                data_json == Utf8Decode(EntryBytes(backups[filename], DATA_JSON))
            IN  \/ /\ images' = Extract(images, entries, Len(entries))
                   /\ oldFiles' = ExtractOutside(oldFiles, entries, Len(entries))
                   /\ RestoreReturns(filename, Ok(data_json), ExtractedNames(entries, Len(entries)))
                   /\ UNCHANGED faults
                \/ \* File::create or io::copy fails at entry i
                   /\ faults > 0
                   /\ faults' = faults - 1
                   /\ \E i \in {j \in 1..Len(entries) : IsImageEntry(entries[j].name)} :
                      \E o \in WriteOutcomes(entries[i].bytes) \ {[kind |-> "ok", n |-> Len(entries[i].bytes)]} :
                         /\ images' = IF EntryInStore(entries[i].name)
                                       THEN FsWrite(Extract(images, entries, i - 1),
                                                    EntryDest(entries[i].name), entries[i].bytes, o)
                                       ELSE Extract(images, entries, i - 1)
                         /\ oldFiles' = IF EntryInStore(entries[i].name)
                                         THEN ExtractOutside(oldFiles, entries, i - 1)
                                         ELSE FsWrite(ExtractOutside(oldFiles, entries, i - 1),
                                                      EntryDest(entries[i].name), entries[i].bytes, o)
                         /\ RestoreReturns(filename, Err(<<"io">>),
                                ExtractedNames(entries, i - 1)
                                \cup (IF o.kind = "create_failed" THEN {}
                                      ELSE {EntryDest(entries[i].name)}))
    /\ Cardinality(DOMAIN images') <= MaxBlobs
    /\ UNCHANGED <<migrated, backupVars>>

restore_backup_extracts_first(filename) == RestoreBackup(filename, FALSE)

restore_backup(filename) == RestoreBackup(filename, TRUE)

delete_backup(filename) ==
    /\ IF backupSettings.backup_directory = NONE \/ filename \notin DOMAIN backups
       THEN /\ last' = Call("delete_backup", <<filename>>, Err(<<"io">>), {})
            /\ UNCHANGED <<backups, made>>
       ELSE /\ backups' = Remove(backups, filename)
            /\ last' = Call("delete_backup", <<filename>>, Ok(<<>>), {})
            /\ made' = NoBackup
    /\ UNCHANGED <<blobVars, backupSettings, dirExists, clock, bk, faults>>

set_backup_settings(settings) ==
    /\ backupSettings' = settings
    /\ last' = Call("set_backup_settings", <<settings>>, Ok(<<>>), {})
    /\ made' = NoBackup
    /\ UNCHANGED <<blobVars, dirExists, backups, clock, bk, faults>>

\* fs::read_dir yields the entries of a directory in an order that depends on the
\* platform and the file system: any listing of its files
Listings(dir) ==
    {l \in [1..Cardinality(DOMAIN dir) -> DOMAIN dir] :
        \A i, j \in 1..Cardinality(DOMAIN dir) : i # j => l[i] # l[j]}

RECURSIVE FileLen(_)
FileLen(entries) ==
    IF entries = <<>> THEN 0 ELSE Len(Head(entries).bytes) + FileLen(Tail(entries))

\* metadata.created() in seconds, 0 where the platform reports no creation time
BackupInfo(dir, filename, btime) ==
    [filename |-> filename,
     created_at |-> IF btime THEN dir[filename].created_at ELSE 0,
     size |-> FileLen(dir[filename].entries)]

\* backups.sort_by(|a, b| b.created_at.cmp(&a.created_at)): a stable sort
RECURSIVE SortByCreatedDesc(_)
SortByCreatedDesc(list) ==
    IF list = <<>> THEN <<>>
    ELSE LET sorted == SortByCreatedDesc(SubSeq(list, 1, Len(list) - 1))
             x == list[Len(list)]
             k == Cardinality({i \in 1..Len(sorted) : sorted[i].created_at >= x.created_at})
         IN  SubSeq(sorted, 1, k) \o <<x>> \o SubSeq(sorted, k + 1, Len(sorted))

\* listing: the order in which fs::read_dir yields the files; btime: whether the
\* platform reports creation times
get_backup_list(listing, btime) ==
    /\ listing \in Listings(backups)
    /\ IF backupSettings.backup_directory = NONE \/ ~dirExists
       THEN /\ last' = Call("get_backup_list", <<>>, Ok(<<>>), {})
            /\ UNCHANGED faults
       ELSE \/ LET found == SelectSeq(listing, IsBackupName)
                   infos == [i \in 1..Len(found) |-> BackupInfo(backups, found[i], btime)]
               IN  /\ last' = Call("get_backup_list", <<>>, Ok(SortByCreatedDesc(infos)), {})
                   /\ UNCHANGED faults
            \/ \* fs::read_dir, an entry or its metadata cannot be read
               /\ faults > 0
               /\ faults' = faults - 1
               /\ last' = Call("get_backup_list", <<>>, Err(<<"io">>), {})
    /\ UNCHANGED <<blobVars, backupSettings, dirExists, backups, clock, bk, made>>

\* A file of the backup directory that is no archive
NOTES_TXT == <<"notes", ".txt">>

OtherFile == [finished |-> FALSE, entries |-> <<>>, created_at |-> 0]

\* The paths validate_backup_path is given: the backup directory, a directory to be
\* made in it, one two levels below it, a file of it, and the empty path
PROBE == <<".litepad_write_test">>
NEW_DIR == BACKUP_DIR \o <<SEP, "new">>
DEEP_DIR == NEW_DIR \o <<SEP, "sub">>
NOTES_PATH == BACKUP_DIR \o <<SEP>> \o NOTES_TXT
ValidatePaths == {BACKUP_DIR, NEW_DIR, DEEP_DIR, NOTES_PATH, <<>>}

IsDirectory(path) == path = BACKUP_DIR /\ dirExists

\* Path::exists
PathExists(path) ==
    \/ IsDirectory(path)
    \/ dirExists /\ \E n \in DOMAIN backups : path = BACKUP_DIR \o <<SEP>> \o n

\* Path::parent: the path without its last component; none for the empty path
HasParent(path) == path # <<>>

ParentOf(path) == SubSeq(path, 1, LastIndexOf(path, SEP) - 1)

\* match (exists, is_writable)
PathValidationResult(exists, is_writable) ==
    [is_valid |-> is_writable,
     exists |-> exists,
     is_writable |-> is_writable,
     error_code |-> IF is_writable THEN NONE
                    ELSE IF exists THEN <<"NO_WRITE_PERMISSION">>
                    ELSE <<"PATH_NOT_ACCESSIBLE">>]

ValidateReturns(path, is_writable, writes) ==
    last' = Call("validate_backup_path", <<path>>,
                 Ok(PathValidationResult(PathExists(path), is_writable)), writes)

\* probe_parent: whether the parent is probed when the path does not exist.
\* The files of the directory above the backup directory are not in the model, so the
\* backup directory is validated only when it exists.
ValidateBackupPath(path, probe_parent) ==
    LET dir == IF PathExists(path) THEN path ELSE ParentOf(path)
        probed == \/ PathExists(path)
                  \/ probe_parent /\ HasParent(path) /\ PathExists(dir)
    IN  /\ PathExists(path) \/ path # BACKUP_DIR
        /\ IF ~probed \/ ~IsDirectory(dir)
           THEN \* no probe, or File::create of a path below a file
                /\ ValidateReturns(path, FALSE, {})
                /\ UNCHANGED <<backups, faults>>
           ELSE \/ \* File::create and fs::remove_file succeed
                   /\ backups' = Remove(backups, PROBE)
                   /\ ValidateReturns(path, TRUE, {PROBE})
                   /\ UNCHANGED faults
                \/ \* File::create fails
                   /\ faults > 0
                   /\ faults' = faults - 1
                   /\ ValidateReturns(path, FALSE, {})
                   /\ UNCHANGED backups
                \/ \* File::create succeeds, fs::remove_file fails (let _ =)
                   /\ faults > 0
                   /\ faults' = faults - 1
                   /\ backups' = Put(backups, PROBE, NewArchive(PROBE))
                   /\ ValidateReturns(path, TRUE, {PROBE})
        /\ UNCHANGED <<blobVars, backupSettings, dirExists, clock, bk, made>>

validate_backup_path_without_parent_probe(path) == ValidateBackupPath(path, FALSE)

validate_backup_path(path) == ValidateBackupPath(path, TRUE)

----------------------------------------------------------------------------
(* The commands of the image store and restore_backup, one step at a time *)

\* The commands run on the threads of the async runtime.  A command of the image
\* store takes the mutex (let state = state.lock().unwrap()) and keeps the guard to
\* its return; fs::write is File::create, which truncates, followed by write_all.

restoreFrame == <<migrated, backupSettings, dirExists, backups, clock, bk, last, made,
                  SHORTCUT_HELD, toggled>>

threadFrame == <<oldFiles, restoreFrame>>

Lookups == {"has_image", "get_image_path", "read_image"}

Holds(t) == mutex = Owner(th[t].op, t)

StartCommand(t, op, filename, buffer) ==
    /\ th[t].pc = "idle"
    /\ th' = [th EXCEPT ![t] = [IdleThread EXCEPT !.op = op, !.pc = "lock",
                                                 !.filename = filename, !.buffer = buffer]]
    /\ UNCHANGED <<images, mutex, faults, threadFrame>>

save_image_call(t, buffer, ext) ==
    StartCommand(t, "save_image", Sha256Hex(buffer) \o ext, buffer)

\* with the hash of the bytes: the call that writes
save_downloaded_image_call(t, ext, buffer) ==
    StartCommand(t, "save_downloaded_image", Sha256Hex(buffer) \o ext, buffer)

\* the legacy file is found and read before the mutex is taken
migrate_old_image_call(t, old_path) ==
    /\ FileAt(OsResolve(NormalizeOldPath(old_path))) # NO_FILE
    /\ LET buffer == FileAt(OsResolve(NormalizeOldPath(old_path)))
       IN  StartCommand(t, "migrate_old_image",
                        Sha256Hex(buffer) \o MigratedExt(NormalizeOldPath(old_path)), buffer)

\* has_image, get_image_path, read_image
lookup_call(t, op, hash, ext) == StartCommand(t, op, hash \o ext, <<>>)

\* state.lock().unwrap(): waits until the mutex is free
command_lock(t) ==
    /\ th[t].pc = "lock"
    /\ mutex = FREE
    /\ mutex' = Owner(th[t].op, t)
    /\ th' = [th EXCEPT ![t].pc = IF th[t].op \in Lookups THEN "look"
                                  ELSE IF th[t].op = "save_downloaded_image" THEN "create"
                                  ELSE "exists"]
    /\ UNCHANGED <<images, faults, threadFrame>>

\* if !file_path.exists()
command_exists(t) ==
    /\ th[t].pc = "exists"
    /\ th' = [th EXCEPT ![t].pc = IF th[t].filename \in DOMAIN images THEN "return" ELSE "create"]
    /\ UNCHANGED <<images, mutex, faults, threadFrame>>

\* file_path.exists(), fs::read(&file_path)
command_look(t) ==
    /\ th[t].pc = "look"
    /\ th' = [th EXCEPT ![t].pc = "return"]
    /\ UNCHANGED <<images, mutex, faults, threadFrame>>

\* fs::write, first half: the file is created or truncated
command_create(t) ==
    /\ th[t].pc = "create"
    /\ \/ /\ Room(th[t].filename)
          /\ images' = Put(images, th[t].filename, <<>>)
          /\ th' = [th EXCEPT ![t].pc = "write"]
          /\ UNCHANGED faults
       \/ /\ faults > 0
          /\ faults' = faults - 1
          /\ th' = [th EXCEPT ![t].pc = "return"]
          /\ UNCHANGED images
    /\ UNCHANGED <<mutex, threadFrame>>

\* Bytes written from the start of a file that holds old
Overlay(old, bytes) == bytes \o SubSeq(old, Len(bytes) + 1, Len(old))

\* fs::write, second half: write_all
command_write(t) ==
    /\ th[t].pc = "write"
    /\ \/ /\ images' = Put(images, th[t].filename, Overlay(images[th[t].filename], th[t].buffer))
          /\ UNCHANGED faults
       \/ /\ faults > 0
          /\ faults' = faults - 1
          /\ UNCHANGED images
    /\ th' = [th EXCEPT ![t].pc = "return"]
    /\ UNCHANGED <<mutex, threadFrame>>

\* the command returns, its guard is dropped
command_return(t) ==
    /\ th[t].pc = "return"
    /\ mutex' = FREE
    /\ th' = [th EXCEPT ![t] = IdleThread]
    /\ UNCHANGED <<images, faults, threadFrame>>

\* The first entry from position i on that the extraction loop writes
RECURSIVE NextImageEntry(_, _)
NextImageEntry(entries, i) ==
    IF i > Len(entries) \/ IsImageEntry(entries[i].name) THEN i
    ELSE NextImageEntry(entries, i + 1)

\* restore_backup up to data.json: the archive is opened and the snapshot read
restore_backup_call(t, filename) ==
    /\ th[t].pc = "idle"
    /\ backupSettings.backup_directory # NONE
    /\ filename \in DOMAIN backups
    /\ backups[filename].finished
    /\ HasEntry(backups[filename], DATA_JSON)
    /\ Utf8Decode(EntryBytes(backups[filename], DATA_JSON)) # <<-1>>
    /\ th' = [th EXCEPT ![t] = [IdleThread EXCEPT !.op = "restore_backup", !.pc = "path",
                                                 !.filename = filename,
                                                 !.entries = backups[filename].entries]]
    /\ UNCHANGED <<images, mutex, faults, threadFrame>>

\* let images_path = { let state = state.lock().unwrap(); state.images_path.clone() };
restore_backup_path(t) ==
    /\ th[t].pc = "path"
    /\ mutex = FREE
    /\ th' = [th EXCEPT ![t].pc = "extract", ![t].i = NextImageEntry(th[t].entries, 1)]
    /\ UNCHANGED <<images, mutex, faults, threadFrame>>

\* fs::File::create(&dest_path)
restore_backup_create(t) ==
    /\ th[t].pc = "extract"
    /\ th[t].i <= Len(th[t].entries)
    /\ LET dest == EntryDest(th[t].entries[th[t].i].name)
           inside == EntryInStore(th[t].entries[th[t].i].name)
       IN  \/ /\ inside => Room(dest)
              /\ images' = IF inside THEN Put(images, dest, <<>>) ELSE images
              /\ oldFiles' = IF inside THEN oldFiles ELSE Put(oldFiles, dest, <<>>)
              /\ th' = [th EXCEPT ![t].pc = "copy"]
              /\ UNCHANGED faults
           \/ /\ faults > 0
              /\ faults' = faults - 1
              /\ th' = [th EXCEPT ![t] = IdleThread]
              /\ UNCHANGED <<images, oldFiles>>
    /\ UNCHANGED <<mutex, restoreFrame>>

\* std::io::copy(&mut file, &mut dest_file)
restore_backup_copy(t) ==
    /\ th[t].pc = "copy"
    /\ LET e == th[t].entries[th[t].i]
           dest == EntryDest(e.name)
           inside == EntryInStore(e.name)
       IN  \/ /\ images' = IF inside THEN Put(images, dest, Overlay(images[dest], e.bytes))
                            ELSE images
              /\ oldFiles' = IF inside THEN oldFiles
                              ELSE Put(oldFiles, dest, Overlay(oldFiles[dest], e.bytes))
              /\ th' = [th EXCEPT ![t].pc = "extract",
                                  ![t].i = NextImageEntry(th[t].entries, th[t].i + 1)]
              /\ UNCHANGED faults
           \/ /\ faults > 0
              /\ faults' = faults - 1
              /\ th' = [th EXCEPT ![t] = IdleThread]
              /\ UNCHANGED <<images, oldFiles>>
    /\ UNCHANGED <<mutex, restoreFrame>>

\* Ok(data_json)
restore_backup_return(t) ==
    /\ th[t].pc = "extract"
    /\ th[t].i > Len(th[t].entries)
    /\ th' = [th EXCEPT ![t] = IdleThread]
    /\ UNCHANGED <<images, mutex, faults, threadFrame>>

----------------------------------------------------------------------------
(* The litepad:// protocol handler *)

URI_IMAGES == <<"/">> \o IMAGES_PREFIX

\* The path of the request the webview makes for a reference URL
UrlPath(url) == URI_IMAGES \o Tail(url)

\* the response the closure returns, as the result of the call
Response(status, content_type, body) ==
    Ok([status |-> status, content_type |-> content_type, body |-> body])

\* file_path.extension(), without the dot ("png" when there is none)
Extension(filename) ==
    IF Len(filename) >= 2 /\ filename[Len(filename) - 1] = "."
    THEN filename[Len(filename)]
    ELSE "png"

MimeType(ext) ==
    CASE ext = "png" -> "image/png"
      [] ext \in {"jpg", "jpeg"} -> "image/jpeg"
      [] ext = "gif" -> "image/gif"
      [] ext = "webp" -> "image/webp"
      [] ext = "svg" -> "image/svg+xml"
      [] ext = "bmp" -> "image/bmp"
      [] OTHER -> "application/octet-stream"

NotFoundResponse == Response(404, "", <<>>)

\* register_uri_scheme_protocol("litepad", ..): one request.  images_path.join("") is
\* the images directory itself, which exists and cannot be read as a file.
litepad_request(path) ==
    /\ IF StartsWith(path, URI_IMAGES)
       THEN LET filename == StripPrefix(path, URI_IMAGES)
                file_path == DestPath(filename)
            IN  IF filename = <<>>
                THEN /\ last' = Call("litepad", <<path>>, Response(500, "", <<>>), {})
                     /\ UNCHANGED faults
                ELSE IF file_path \in DOMAIN images
                THEN \/ /\ last' = Call("litepad", <<path>>,
                                        Response(200, MimeType(Extension(file_path)),
                                                 images[file_path]), {})
                        /\ UNCHANGED faults
                     \/ \* std::fs::read fails
                        /\ faults > 0
                        /\ faults' = faults - 1
                        /\ last' = Call("litepad", <<path>>, Response(500, "", <<>>), {})
                ELSE /\ last' = Call("litepad", <<path>>, NotFoundResponse, {})
                     /\ UNCHANGED faults
       ELSE /\ last' = Call("litepad", <<path>>, NotFoundResponse, {})
            /\ UNCHANGED faults
    /\ UNCHANGED <<images, oldFiles, migrated, backupVars>>

----------------------------------------------------------------------------
(* The global shortcut Alt+X *)

shortcutFrame == <<images, oldFiles, migrated, backupSettings, dirExists, backups, clock, bk,
                   last, made, faults, mutex, th>>

\* The main window is shown when the application starts
WindowVisible == IF toggled = <<>> THEN TRUE ELSE toggled[Len(toggled)].visible

\* toggle_window: hide the window when it is visible, show it otherwise
ShortcutEvent(state, toggle) ==
    /\ Len(toggled) < MaxEvents
    /\ toggled' = Append(toggled, [state |-> state, toggle |-> toggle,
                                   visible |-> IF toggle THEN ~WindowVisible
                                               ELSE WindowVisible])

\* ShortcutState::Pressed; debounce: whether a Pressed while the key is held returns
\* early
ShortcutPressed(debounce) ==
    LET was_held == SHORTCUT_HELD
    IN  /\ SHORTCUT_HELD' = TRUE
        /\ ShortcutEvent("Pressed", ~(debounce /\ was_held))
        /\ UNCHANGED shortcutFrame

shortcut_pressed_toggles_again == ShortcutPressed(FALSE)

shortcut_pressed == ShortcutPressed(TRUE)

\* ShortcutState::Released
shortcut_released ==
    /\ SHORTCUT_HELD' = FALSE
    /\ ShortcutEvent("Released", FALSE)
    /\ UNCHANGED shortcutFrame

----------------------------------------------------------------------------
(* Update check: compare_versions *)

\* str::trim_start_matches('v')
RECURSIVE TrimStartV(_)
TrimStartV(s) == IF s # <<>> /\ Head(s) = "v" THEN TrimStartV(Tail(s)) ELSE s

\* str::split('.'): the parts between the dots, empty parts included
RECURSIVE SplitDots(_, _)
SplitDots(part, rest) ==
    IF rest = <<>> THEN <<part>>
    ELSE IF Head(rest) = "." THEN <<part>> \o SplitDots(<<>>, Tail(rest))
    ELSE SplitDots(Append(part, Head(rest)), Tail(rest))

IsDigit(tok) == \E i \in 1..Len(Digit) : Digit[i] = tok

DigitValue(tok) == (CHOOSE i \in 1..Len(Digit) : Digit[i] = tok) - 1

RECURSIVE DecimalValue(_)
DecimalValue(part) ==
    IF part = <<>> THEN 0
    ELSE DecimalValue(SubSeq(part, 1, Len(part) - 1)) * 10 + DigitValue(part[Len(part)])

\* s.parse::<u32>().ok(): -1 stands for None
ParseU32(part) ==
    IF part # <<>> /\ \A i \in 1..Len(part) : IsDigit(part[i])
    THEN DecimalValue(part)
    ELSE -1

\* .filter_map(|s| s.parse().ok()).collect(): the parts that do not parse are dropped
RECURSIVE ParsedParts(_)
ParsedParts(parts) ==
    IF parts = <<>> THEN <<>>
    ELSE IF ParseU32(Head(parts)) = -1 THEN ParsedParts(Tail(parts))
    ELSE <<ParseU32(Head(parts))>> \o ParsedParts(Tail(parts))

VersionParts(version) == ParsedParts(SplitDots(<<>>, TrimStartV(version)))

\* parts.get(i).unwrap_or(&0), with i counted from 1
PartOr0(parts, i) == IF i <= Len(parts) THEN parts[i] ELSE 0

\* for i in 0..3 { if l > c { return true } else if l < c { return false } } false
RECURSIVE CompareFrom(_, _, _)
CompareFrom(current_parts, latest_parts, i) ==
    IF i > 3 THEN FALSE
    ELSE LET c == PartOr0(current_parts, i)
             l == PartOr0(latest_parts, i)
         IN  IF l > c THEN TRUE
             ELSE IF l < c THEN FALSE
             ELSE CompareFrom(current_parts, latest_parts, i + 1)

compare_versions(current, latest) ==
    CompareFrom(VersionParts(current), VersionParts(latest), 1)

\* check_for_updates: has_update = compare_versions(current_version, &release.tag_name)
check_for_updates(current_version, tag_name) ==
    /\ last' = Call("check_for_updates", <<current_version, tag_name>>,
                    Ok([has_update |-> compare_versions(current_version, tag_name),
                        current_version |-> current_version,
                        latest_version |-> tag_name]), {})
    /\ UNCHANGED <<blobVars, backupVars, faults>>

----------------------------------------------------------------------------
(* Environment *)

\* a second passes
Tick ==
    /\ clock < MaxTime
    /\ clock' = clock + 1
    /\ UNCHANGED <<blobVars, backupSettings, dirExists, backups, bk, last, made, faults>>

\* The application is installed afresh (or on another machine): data/images is
\* created empty by main(); the backup directory lives elsewhere and stays.
NewInstall ==
    /\ images # NoFiles
    /\ images' = NoFiles
    /\ last' = Call("new_install", <<>>, Ok(<<>>), {})
    /\ migrated' = <<>>
    /\ UNCHANGED <<oldFiles, backupVars, faults>>

----------------------------------------------------------------------------
(* Specifications *)

InitWith(files, settings) ==
    /\ images = files
    /\ oldFiles = InitOldFiles
    /\ migrated = <<>>
    /\ InitRest
    /\ backupSettings \in settings
    /\ dirExists \in BOOLEAN
    /\ backups = IF dirExists THEN [n \in {NOTES_TXT} |-> OtherFile] ELSE NoFiles
    /\ clock = 1
    /\ bk = [p \in {1} |-> IdleCall]
    /\ last = NoCall
    /\ made = NoBackup
    /\ faults = MaxFaults

ImageStep(buffers, exts, hashes, old_paths) ==
    \/ \E buffer \in buffers, ext \in exts : save_image(buffer, ext)
    \/ \E hash \in hashes, ext \in exts, buffer \in buffers :
          save_downloaded_image(hash, ext, buffer)
    \/ \E old_path \in old_paths : migrate_old_image(old_path)

BackupStep ==
    \/ \E p \in DOMAIN bk : perform_backup_path(p)
    \/ \E p \in DOMAIN bk : perform_backup_create(p)
    \/ \E p \in DOMAIN bk : perform_backup_data(p)
    \/ \E p \in DOMAIN bk : perform_backup_image(p)
    \/ \E p \in DOMAIN bk : perform_backup_finish(p)
    \/ \E p \in DOMAIN bk : perform_backup_cleanup(p)

\* The file names a caller may pass: the files of the directory and the names
\* perform_backup can have returned so far
BackupFiles == (DOMAIN backups) \cup {BackupName(t) : t \in 1..clock}

\* The image store alone, from an empty store
InitImages == InitWith(NoFiles, {[backup_directory |-> NONE, max_backups |-> 0]})

NextImages == ImageStep(Buffers, Exts, ClaimedHashes, OldPaths)

SpecImages == InitImages /\ [][NextImages]_vars

\* The image store with backup and restore.  Every command runs to completion
\* before the next one starts.
Init == InitWith(NoFiles, SettingsDomain)

Next ==
    \/ AllIdle /\ ImageStep({<<1, 2>>}, {EXT_PNG}, {Sha256Hex(<<1, 2>>), <<"d", "e">>}, {OLD_B})
    \/ AllIdle /\ \E p \in DOMAIN bk, data \in Snapshots : perform_backup_start(p, data)
    \/ BackupStep
    \/ AllIdle /\ \E filename \in BackupFiles : restore_backup(filename)
    \/ AllIdle /\ NewInstall

Spec == Init /\ [][Next]_vars

\* The backup directory under changing settings: retention
InitRetention ==
    InitWith([n \in {Sha256Hex(<<1>>) \o EXT_PNG} |-> <<1>>],
             {st \in SettingsDomain : st.backup_directory # NONE})

NextRetention ==
    \/ AllIdle /\ \E p \in DOMAIN bk : perform_backup_start(p, <<65>>)
    \/ BackupStep
    \/ AllIdle /\ \E filename \in BackupFiles : delete_backup(filename)
    \/ AllIdle /\ \E settings \in SettingsDomain : set_backup_settings(settings)
    \/ AllIdle /\ Tick

SpecRetention == InitRetention /\ [][NextRetention]_vars

\* Restoring archives brought into the backup directory from elsewhere.  The images
\* directory holds a file with a name of its own (PIC_PNG) next to the blobs.
PIC_PNG == <<"pic", ".", "png">>

EXPORT_ZIP == <<"export", ".zip">>
NODATA_ZIP == <<"nodata", ".zip">>

ExportArchive ==
    [finished |-> TRUE,
     entries |-> <<[name |-> DATA_JSON, bytes |-> Utf8Encode(<<233, 65>>)],
                   [name |-> ZipPathStr(PIC_PNG), bytes |-> <<2>>]>>,
     created_at |-> 0]

NoDataArchive ==
    [finished |-> TRUE,
     entries |-> <<[name |-> ZipPathStr(PIC_PNG), bytes |-> <<2>>]>>,
     created_at |-> 0]

InitRestore ==
    /\ images = [n \in {PIC_PNG} |-> <<1>>]
    /\ oldFiles = InitOldFiles
    /\ migrated = <<>>
    /\ InitRest
    /\ backupSettings = [backup_directory |-> BACKUP_DIR, max_backups |-> 1]
    /\ dirExists = TRUE
    /\ backups = [n \in {NOTES_TXT, EXPORT_ZIP, NODATA_ZIP} |->
                     IF n = EXPORT_ZIP THEN ExportArchive
                     ELSE IF n = NODATA_ZIP THEN NoDataArchive ELSE OtherFile]
    /\ clock = 1
    /\ bk = [p \in {1} |-> IdleCall]
    /\ last = NoCall
    /\ made = NoBackup
    /\ faults = MaxFaults

NextRestore ==
    \/ AllIdle /\ save_image(<<1, 2>>, EXT_PNG)
    \/ AllIdle /\ \E p \in DOMAIN bk : perform_backup_start(p, <<65>>)
    \/ BackupStep
    \/ AllIdle /\ \E filename \in BackupFiles : restore_backup(filename)

SpecRestore == InitRestore /\ [][NextRestore]_vars

\* Candidate backup directories probed while backups are made and deleted.  The
\* directory may hold a file of the probe's name.
InitValidate ==
    /\ images = [n \in {Sha256Hex(<<1>>) \o EXT_PNG} |-> <<1>>]
    /\ oldFiles = InitOldFiles
    /\ migrated = <<>>
    /\ InitRest
    /\ backupSettings = [backup_directory |-> BACKUP_DIR, max_backups |-> 1]
    /\ dirExists \in BOOLEAN
    /\ backups \in IF dirExists
                   THEN {[n \in {NOTES_TXT} |-> OtherFile],
                         [n \in {NOTES_TXT, PROBE} |-> OtherFile]}
                   ELSE {NoFiles}
    /\ clock = 1
    /\ bk = [p \in {1} |-> IdleCall]
    /\ last = NoCall
    /\ made = NoBackup
    /\ faults = MaxFaults

NextValidate ==
    \/ AllIdle /\ \E path \in ValidatePaths : validate_backup_path(path)
    \/ AllIdle /\ \E p \in DOMAIN bk : perform_backup_start(p, <<65>>)
    \/ BackupStep
    \/ AllIdle /\ \E filename \in DOMAIN backups : delete_backup(filename)

SpecValidate == InitValidate /\ [][NextValidate]_vars

\* The backup directory as the settings dialog lists it while backups are made and
\* deleted
InitFolder ==
    /\ images = [n \in {Sha256Hex(<<1>>) \o EXT_PNG} |-> <<1>>]
    /\ oldFiles = InitOldFiles
    /\ migrated = <<>>
    /\ InitRest
    /\ backupSettings \in [backup_directory : {NONE, BACKUP_DIR}, max_backups : {MaxTime}]
    /\ dirExists \in BOOLEAN
    /\ backups = IF dirExists THEN [n \in {NOTES_TXT} |-> OtherFile] ELSE NoFiles
    /\ clock = 1
    /\ bk = [p \in {1} |-> IdleCall]
    /\ last = NoCall
    /\ made = NoBackup
    /\ faults = MaxFaults

NextFolder ==
    \/ AllIdle /\ \E listing \in Listings(backups), btime \in BOOLEAN :
                      get_backup_list(listing, btime)
    \/ AllIdle /\ \E p \in DOMAIN bk : perform_backup_start(p, <<65>>)
    \/ BackupStep
    \/ AllIdle /\ \E filename \in DOMAIN backups : delete_backup(filename)
    \/ AllIdle /\ Tick

SpecFolder == InitFolder /\ [][NextFolder]_vars

\* Legacy images to migrate: three files of the same bytes (two with a suffix, one
\* without), a file on a network share (OLD_UNC), a file under the root of the current
\* drive (ROOTED_NAS) whose path differs from that of a missing network file (OLD_NAS)
\* by one leading separator, a blob of the store, and the paths a caller can pass.
OLD_C == <<"C:", SEP, "old", SEP, "c", ".", "jpg">>
OLD_UNC == <<SEP, SEP, "srv", SEP, "pics", SEP, "c", ".", "png">>
OLD_NAS == <<SEP, SEP, "nas", SEP, "pics", SEP, "d", ".", "png">>
ROOTED_NAS == <<SEP, "nas", SEP, "pics", SEP, "d", ".", "png">>
OLD_STORE == StorePrefix \o Sha256Hex(<<1>>) \o EXT_PNG

MigratePaths == {OLD_A, OLD_B, OLD_C, OLD_UNC, OLD_NAS, OLD_STORE, OLD_GONE}

MaxPaths == 2

\* The paths a caller asks check_old_images_exist about
CheckPaths == {OLD_A, OLD_UNC, OLD_NAS, OLD_GONE}

PathLists == UNION {[1..n -> CheckPaths] : n \in 0..MaxPaths}

InitMigrate ==
    /\ images = NoFiles
    /\ oldFiles = [p \in {OsResolve(OLD_A), OLD_B, OLD_C, OLD_UNC, ROOTED_NAS} |->
                      IF p \in {OLD_UNC, ROOTED_NAS} THEN <<2>> ELSE <<1>>]
    /\ migrated = <<>>
    /\ InitRest
    /\ backupSettings = [backup_directory |-> NONE, max_backups |-> 0]
    /\ dirExists = FALSE
    /\ backups = NoFiles
    /\ clock = 1
    /\ bk = [p \in {1} |-> IdleCall]
    /\ last = NoCall
    /\ made = NoBackup
    /\ faults = MaxFaults

NextMigrate ==
    \/ \E old_path \in MigratePaths : migrate_old_image(old_path)
    \/ \E paths \in PathLists : check_old_images_exist(paths)
    \/ \E buffer \in {<<1>>, <<2>>}, ext \in Exts : save_image(buffer, ext)

SpecMigrate == InitMigrate /\ [][NextMigrate]_vars

\* Commands on two threads and a perform_backup call, over a store that holds one
\* blob and a backup directory that holds an archive of that blob
BLOB_ZIP == <<"blob", ".zip">>

BlobArchive ==
    [finished |-> TRUE,
     entries |-> <<[name |-> DATA_JSON, bytes |-> Utf8Encode(<<65>>)],
                   [name |-> ZipPathStr(Sha256Hex(<<1>>) \o EXT_PNG), bytes |-> <<1>>]>>,
     created_at |-> 0]

InitLock ==
    /\ images = [n \in {Sha256Hex(<<1>>) \o EXT_PNG} |-> <<1>>]
    /\ oldFiles = InitOldFiles
    /\ migrated = <<>>
    /\ InitRest
    /\ backupSettings = [backup_directory |-> BACKUP_DIR, max_backups |-> 1]
    /\ dirExists = TRUE
    /\ backups = [n \in {BLOB_ZIP} |-> BlobArchive]
    /\ clock = 1
    /\ bk = [p \in {1} |-> IdleCall]
    /\ last = NoCall
    /\ made = NoBackup
    /\ faults = MaxFaults

ThreadStep(t) ==
    \/ command_lock(t)
    \/ command_exists(t)
    \/ command_look(t)
    \/ command_create(t)
    \/ command_write(t)
    \/ command_return(t)
    \/ restore_backup_path(t)
    \/ restore_backup_create(t)
    \/ restore_backup_copy(t)
    \/ restore_backup_return(t)

\* The commands a thread can be given
CallStep(t) ==
    \/ save_image_call(t, <<2>>, EXT_PNG)
    \/ save_downloaded_image_call(t, EXT_PNG, <<1>>)
    \/ migrate_old_image_call(t, OLD_B)
    \/ \E op \in Lookups : lookup_call(t, op, Sha256Hex(<<1>>), EXT_PNG)
    \/ restore_backup_call(t, BLOB_ZIP)

\* One command at a time beside a perform_backup call
NextLock ==
    \/ CallStep(1)
    \/ ThreadStep(1)
    \/ \E p \in DOMAIN bk : perform_backup_start(p, <<65>>)
    \/ BackupStep

SpecLock == InitLock /\ [][NextLock]_vars

\* Two commands at a time
NextWriters == \E t \in Threads : CallStep(t) \/ ThreadStep(t)

SpecWriters == InitLock /\ [][NextWriters]_vars

\* Two perform_backup calls at a time, into a directory that may hold an archive
\* named after a later time (made while the clock was ahead, or copied in)
LATER_ZIP == BackupName(9)

LaterArchive ==
    [finished |-> TRUE,
     entries |-> <<[name |-> DATA_JSON, bytes |-> Utf8Encode(<<65>>)]>>,
     created_at |-> 0]

\* The snapshot each of the two callers passes
SnapshotOf(p) == <<64 + p>>

InitOverlap ==
    /\ images = [n \in {Sha256Hex(<<1>>) \o EXT_PNG} |-> <<1>>]
    /\ oldFiles = InitOldFiles
    /\ migrated = <<>>
    /\ InitRest
    /\ backupSettings \in [backup_directory : {BACKUP_DIR}, max_backups : {0, 2}]
    /\ dirExists = TRUE
    /\ backups \in {NoFiles, [n \in {LATER_ZIP} |-> LaterArchive]}
    /\ clock = 1
    /\ bk = [p \in {1, 2} |-> IdleCall]
    /\ last = NoCall
    /\ made = NoBackup
    /\ faults = MaxFaults

\* each of the two callers makes one call
NextOverlap ==
    \/ \E p \in DOMAIN bk : bk[p].log = <<>> /\ perform_backup_start(p, SnapshotOf(p))
    \/ BackupStep
    \/ Tick

SpecOverlap == InitOverlap /\ [][NextOverlap]_vars

\* The image store and the requests of the webview for images
RequestPaths ==
    {UrlPath(ImageUrl(Sha256Hex(buffer), ext)) : buffer \in Buffers, ext \in Exts}
    \cup {URI_IMAGES, URI_IMAGES \o <<"f", "f">> \o EXT_PNG, <<"/", "index.html">>}

NextUri ==
    \/ \E buffer \in Buffers, ext \in Exts : save_image(buffer, ext)
    \/ \E path \in RequestPaths : litepad_request(path)

SpecUri == InitImages /\ [][NextUri]_vars

\* The names perform_backup gives to archives made at the given times, and the order
\* cleanup_old_backups puts them in
Stamps == 0..MaxStamp

backup_names(t1, t2) ==
    /\ last' = Call("backup_names", <<t1, t2>>, Ok(<<BackupName(t1), BackupName(t2)>>), {})
    /\ UNCHANGED <<blobVars, backupVars, faults>>

sort_backups(times) ==
    /\ last' = Call("sort_backups", <<times>>, Ok(SortDesc({BackupName(t) : t \in times})), {})
    /\ UNCHANGED <<blobVars, backupVars, faults>>

\* one computation in a behaviour
NextNames ==
    \/ \E t1, t2 \in Stamps : last = NoCall /\ backup_names(t1, t2)
    \/ \E t1, t2, t3 \in Stamps : last = NoCall /\ sort_backups({t1, t2, t3})

SpecNames == InitImages /\ [][NextNames]_vars

\* restore_backup of an archive that perform_backup did not make: one entry with ..
\* components after images/ and one with an absolute path
FOREIGN_ZIP == <<"foreign", ".zip">>

ForeignArchive ==
    [finished |-> TRUE,
     entries |-> <<[name |-> DATA_JSON, bytes |-> Utf8Encode(<<65>>)],
                   [name |-> IMAGES_PREFIX \o <<"..", "/", "b">>, bytes |-> <<1>>],
                   [name |-> IMAGES_PREFIX \o <<"C:", "/", "old", "/", "b">>, bytes |-> <<1>>]>>,
     created_at |-> 0]

InitForeign ==
    /\ images = [n \in {PIC_PNG} |-> <<1>>]
    /\ oldFiles = InitOldFiles
    /\ migrated = <<>>
    /\ InitRest
    /\ backupSettings = [backup_directory |-> BACKUP_DIR, max_backups |-> 1]
    /\ dirExists = TRUE
    /\ backups = [n \in {EXPORT_ZIP, FOREIGN_ZIP} |->
                     IF n = EXPORT_ZIP THEN ExportArchive ELSE ForeignArchive]
    /\ clock = 1
    /\ bk = [p \in {1} |-> IdleCall]
    /\ last = NoCall
    /\ made = NoBackup
    /\ faults = MaxFaults

SpecForeign == InitForeign /\ [][NextRestore]_vars

\* The events of the global shortcut
NextShortcut ==
    \/ shortcut_pressed
    \/ shortcut_released

SpecShortcut == InitImages /\ [][NextShortcut]_vars

\* Version numbers and the way they are written: major.minor.patch, with an optional
\* leading v and an optional pre-release -beta.n (beta: 0 for a release)
SemVers == [major : {1}, minor : {2, 10}, patch : 0..MaxPatch, beta : 0..2]

Decimal(n) == IF n < 10 THEN <<Digit[n + 1]>> ELSE <<Digit[(n \div 10) + 1], Digit[(n % 10) + 1]>>

VersionString(ver, with_v) ==
    (IF with_v THEN <<"v">> ELSE <<>>)
    \o Decimal(ver.major) \o <<".">> \o Decimal(ver.minor) \o <<".">> \o Decimal(ver.patch)
    \o (IF ver.beta = 0 THEN <<>> ELSE <<"-", "beta", ".">> \o Decimal(ver.beta))

VersionStrings == {VersionString(ver, with_v) : ver \in SemVers, with_v \in BOOLEAN}

\* one update check in a behaviour
NextVersions ==
    \E current_version, tag_name \in VersionStrings :
       last = NoCall /\ check_for_updates(current_version, tag_name)

SpecVersions == InitImages /\ [][NextVersions]_vars

----------------------------------------------------------------------------
(* The image store *)

\* C1: a save_image call that directly follows a successful save_image call with the
\* same bytes and extension writes nothing, leaves the store as it was and returns
\* the same descriptor as the first call.
C1_SaveImageIdempotent ==
    [][\A buffer \in Buffers, ext \in Exts :
          (last'.op = "save_image" /\ save_image(buffer, ext) /\ last'.repeat)
          => /\ images' = images
             /\ last'.writes = {}
             /\ last'.result = last.result]_vars

C1_SavedTwice ==
    /\ last.op = "save_image"
    /\ last.repeat
    /\ last.result.ok
    /\ (Sha256Hex(last.args[1]) \o last.args[2]) \in DOMAIN images

\* C2: every file of the store carries, before its extension, the SHA-256 digest of
\* the bytes it holds.
C2_NameIsDigestOfContent ==
    \A name \in DOMAIN images : \E ext \in Exts : name = Sha256Hex(images[name]) \o ext

\* C3: save_downloaded_image with bytes whose digest is not the claimed hash returns the
\* hash-mismatch error naming both digests and writes nothing, whatever the store holds.
C3_MismatchWritesNothing ==
    [][\A hash \in ClaimedHashes, ext \in Exts, buffer \in Buffers :
          (/\ last'.op = "save_downloaded_image"
           /\ save_downloaded_image(hash, ext, buffer)
           /\ Sha256Hex(buffer) # hash)
          => /\ images' = images
             /\ last'.writes = {}
             /\ last'.result = Err(HashMismatch(hash, Sha256Hex(buffer)))]_vars

C3_MismatchOnExistingFile ==
    /\ last.op = "save_downloaded_image"
    /\ ~last.result.ok
    /\ Sha256Hex(last.args[3]) # last.args[1]
    /\ (last.args[1] \o last.args[2]) \in DOMAIN images

\* C4: save_downloaded_image with the right hash acts on the store as save_image does:
\* it writes the file only when no file of that name exists, leaves an existing file
\* alone, and the file exists afterwards.
C4_DownloadedActsLikeSave ==
    [][\A hash \in ClaimedHashes, ext \in Exts, buffer \in Buffers :
          (/\ last'.op = "save_downloaded_image"
           /\ save_downloaded_image(hash, ext, buffer)
           /\ Sha256Hex(buffer) = hash
           /\ last'.result.ok)
          => LET filename == hash \o ext
             IN  /\ filename \in DOMAIN images'
                 /\ filename \in DOMAIN images
                    => (images'[filename] = images[filename] /\ filename \notin last'.writes)]_vars

----------------------------------------------------------------------------
(* Backup and restore *)

IsBlob(dir, name) == \E ext \in Exts : name = Sha256Hex(dir[name]) \o ext

\* C5: no command changes or removes a blob (a file of the store named by the digest
\* of its bytes) once it is there.
C5_BlobsImmutable ==
    [][NewInstall
       \/ \A name \in DOMAIN images :
             IsBlob(images, name) => (name \in DOMAIN images' /\ images'[name] = images[name])]_vars

\* C6: restore_backup of the file name a perform_backup call returned, run on an empty
\* store, returns the snapshot text of that call and fills the store with exactly the
\* files the store held at the backup.
C6_RoundTrip ==
    [][\A filename \in BackupFiles :
          (/\ last'.op = "restore_backup"
           /\ restore_backup(filename)
           /\ made.valid
           /\ filename = made.filename
           /\ images = NoFiles
           /\ faults' = faults)
          => (last'.result = Ok(made.data) /\ images' = made.files)]_vars

Events(p, ev) == {i \in 1..Len(bk[p].log) : bk[p].log[i] = ev}

\* C8: in one perform_backup call data.json is written before any image entry, every
\* image entry before the archive is finished, and pruning runs only after the finish
\* (so never in a call whose archive writing failed).
C8_BackupOrder ==
    \A p \in DOMAIN bk :
       /\ \A i \in Events(p, "image") : \E j \in Events(p, "data.json") : j < i
       /\ \A i \in Events(p, "image") : \A j \in Events(p, "finish") : i < j
       /\ \A i \in Events(p, "cleanup") : \E j \in Events(p, "finish") : j < i
       /\ \A i \in Events(p, "finish") : \E j \in Events(p, "data.json") : j < i
       /\ bk[p].pc \in {"images", "cleanup"}
          => /\ backups[bk[p].filename].entries[1].name = DATA_JSON
             /\ backups[bk[p].filename].finished = (bk[p].pc = "cleanup")

C8_FullBackupLogged ==
    bk[1].pc = "idle" /\ bk[1].log = <<"create", "data.json", "image", "finish", "cleanup">>

\* C10: with no backup directory configured perform_backup returns an error and
\* touches nothing on disk: no directory made, no archive created, none pruned.
C10_NoDirectoryNoEffect ==
    [][\A p \in DOMAIN bk, data \in Snapshots :
          (/\ backupSettings.backup_directory = NONE
           /\ last'.op = "perform_backup"
           /\ perform_backup_start(p, data))
          => /\ ~last'.result.ok
             /\ bk'[p].pc = "idle"
             /\ UNCHANGED <<dirExists, backups, images>>]_vars

C10_RefusedWithoutDirectory ==
    /\ last.op = "perform_backup"
    /\ last.result = Err(<<"Backup directory not configured">>)
    /\ ~dirExists
    /\ backups = NoFiles

----------------------------------------------------------------------------
(* Retention *)

Archives == {n \in DOMAIN backups : IsBackupName(n)}

\* perform_backup has just returned Ok
Returned(p) == bk[p].pc = "idle" /\ last.op = "perform_backup" /\ last.result.ok

\* the archives left are the newest of those the directory held when pruning began
NewestKept(p) ==
    /\ Archives \subseteq DOMAIN bk[p].before
    /\ \A a \in Archives, d \in (DOMAIN bk[p].before) \ Archives :
          StrLess(d, a) /\ bk[p].before[d] < bk[p].before[a]

\* C7 as stated: after N >= k successful calls with max_backups = k the directory
\* holds exactly k archives, the k most recently created.
C7_ExactlyKNewest ==
    \A p \in DOMAIN bk :
       (Returned(p) /\ made.calls >= bk[p].max_backups)
       => (Cardinality(Archives) = bk[p].max_backups /\ NewestKept(p))

\* C7 amended: when no deletion of the pruning fails, a successful perform_backup
\* leaves min(k, n) archives of the n the directory held when pruning began, those
\* with the greatest names, which are the most recently created; exactly k once k
\* calls made in different seconds have succeeded.
C7_Retention ==
    \A p \in DOMAIN bk :
       (Returned(p) /\ bk[p].kept = {})
       => /\ Cardinality(Archives) = Min(bk[p].max_backups, Cardinality(DOMAIN bk[p].before))
          /\ NewestKept(p)
          /\ made.count >= bk[p].max_backups => Cardinality(Archives) = bk[p].max_backups

C7_PrunedToK ==
    /\ Returned(1)
    /\ bk[1].kept = {}
    /\ bk[1].max_backups >= 1
    /\ made.count >= bk[1].max_backups
    /\ bk[1].excess # {}

\* C9: a deletion that fails during pruning is swallowed: every other excess archive
\* is deleted all the same and perform_backup returns Ok with the new file name.
C9_DeleteFailureSwallowed ==
    [][\A p \in DOMAIN bk :
          (bk[p].pc = "cleanup" /\ bk'[p].pc = "idle" /\ bk'[p].kept # {})
          => /\ last'.result = Ok(bk[p].filename)
             /\ \A n \in bk'[p].excess \ bk'[p].kept : n \notin DOMAIN backups'
             /\ \A n \in bk'[p].kept : n \in DOMAIN backups']_vars

C9_OneKeptOthersDeleted ==
    /\ Returned(1)
    /\ bk[1].kept # {}
    /\ bk[1].excess \ bk[1].kept # {}
    /\ bk[1].excess \cap DOMAIN backups = bk[1].kept

----------------------------------------------------------------------------
(* Restore *)

\* C11: when restore_backup returns Ok for an archive, every images/ entry of the
\* archive is in the store under its relative path with the bytes of the entry (a file
\* that had the name is replaced), every other file of the store is as it was, and the
\* value returned is the text of the archive's data.json.
C11_RestoreInstallsArchive ==
    [][\A filename \in BackupFiles :
          (/\ last'.op = "restore_backup"
           /\ restore_backup(filename)
           /\ last'.result.ok)
          => LET entries == backups[filename].entries
                 named == ExtractedNames(entries, Len(entries))
             IN  /\ \A i \in 1..Len(entries) :
                        IsImageEntry(entries[i].name)
                        => /\ EntryDest(entries[i].name) \in DOMAIN images'
                           /\ images'[EntryDest(entries[i].name)] = entries[i].bytes
                 /\ DOMAIN images' = (DOMAIN images) \cup named
                 /\ \A n \in (DOMAIN images) \ named : images'[n] = images[n]
                 /\ last'.result.val = Utf8Decode(EntryBytes(backups[filename], DATA_JSON))]_vars

C11_RestoredOverExisting ==
    /\ last.op = "restore_backup"
    /\ last.result.ok
    /\ last.args = <<EXPORT_ZIP>>
    /\ PIC_PNG \in last.writes
    /\ images[PIC_PNG] = <<2>>
    /\ (DOMAIN images) \ last.writes # {}

\* C12: restore_backup of a file name the backup directory does not hold, of a file
\* that is no readable archive, or of an archive without a data.json entry returns an
\* error and leaves the store as it was.
C12_BadArchiveWritesNothing ==
    [][\A filename \in BackupFiles :
          (/\ last'.op = "restore_backup"
           /\ restore_backup(filename)
           /\ backupSettings.backup_directory # NONE
           /\ \/ filename \notin DOMAIN backups
              \/ ~backups[filename].finished
              \/ ~HasEntry(backups[filename], DATA_JSON))
          => /\ ~last'.result.ok
             /\ last'.writes = {}
             /\ images' = images]_vars

C12_NoDataJsonRefused ==
    /\ last.op = "restore_backup"
    /\ last.args = <<NODATA_ZIP>>
    /\ last.result = Err(<<"data.json not found">>)
    /\ PIC_PNG \in DOMAIN images
    /\ images[PIC_PNG] = <<1>>

----------------------------------------------------------------------------
(* The backup directory *)

ListedNames(list) == {list[i].filename : i \in 1..Len(list)}

\* ties in created_at are in the order of the file names, ascending or descending
TiesByFilename(list) ==
    \/ \A i, j \in 1..Len(list) :
          (i < j /\ list[i].created_at = list[j].created_at)
          => StrLess(list[i].filename, list[j].filename)
    \/ \A i, j \in 1..Len(list) :
          (i < j /\ list[i].created_at = list[j].created_at)
          => StrLess(list[j].filename, list[i].filename)

\* the list holds each archive of the directory once, newest creation time first
ListsArchives(list) ==
    /\ ListedNames(list) = Archives
    /\ Len(list) = Cardinality(Archives)
    /\ \A i, j \in 1..Len(list) : i < j => list[i].created_at >= list[j].created_at

\* C13: get_backup_list returns the archives of the backup directory, each once,
\* by created_at descending and, where created_at is equal (0 when the platform reports
\* no creation time), by file name; the empty list when the directory does not exist.
C13_ListOrder ==
    [][\A listing \in Listings(backups), btime \in BOOLEAN :
          (/\ last'.op = "get_backup_list"
           /\ get_backup_list(listing, btime)
           /\ backupSettings.backup_directory # NONE
           /\ faults' = faults)
          => /\ last'.result.ok
             /\ ListsArchives(last'.result.val)
             /\ TiesByFilename(last'.result.val)
             /\ ~dirExists => last'.result.val = <<>>]_vars

\* whether a probe file can be created for the path when no I/O operation fails: in
\* the path when it is a directory, in its parent when the path does not exist
ProbeCreatable(path) ==
    IF PathExists(path) THEN IsDirectory(path)
    ELSE HasParent(path) /\ IsDirectory(ParentOf(path))

\* the four rows of the outcome table
TableRow(exists, creatable) ==
    IF exists /\ creatable
    THEN [is_valid |-> TRUE, exists |-> TRUE, is_writable |-> TRUE, error_code |-> NONE]
    ELSE IF exists
    THEN [is_valid |-> FALSE, exists |-> TRUE, is_writable |-> FALSE,
          error_code |-> <<"NO_WRITE_PERMISSION">>]
    ELSE IF creatable
    THEN [is_valid |-> TRUE, exists |-> FALSE, is_writable |-> TRUE, error_code |-> NONE]
    ELSE [is_valid |-> FALSE, exists |-> FALSE, is_writable |-> FALSE,
          error_code |-> <<"PATH_NOT_ACCESSIBLE">>]

\* C14: validate_backup_path returns the row of the table that belongs to whether the
\* path exists and whether the probe file could be created (in the path, or in its
\* existing parent when the path does not exist); is_valid is is_writable, and
\* error_code is none exactly when is_valid.
C14_ValidationTable ==
    [][\A path \in ValidatePaths :
          (last'.op = "validate_backup_path" /\ validate_backup_path(path))
          => LET r == last'.result.val
                 creatable == /\ ProbeCreatable(path)
                              /\ faults' = faults \/ PROBE \in last'.writes
             IN  /\ last'.result.ok
                 /\ r = TableRow(PathExists(path), creatable)
                 /\ r.is_valid = r.is_writable
                 /\ (r.error_code = NONE) = r.is_valid]_vars

C14_MissingPathWritableParent ==
    /\ last.op = "validate_backup_path"
    /\ last.args = <<NEW_DIR>>
    /\ last.result.val = [is_valid |-> TRUE, exists |-> FALSE, is_writable |-> TRUE,
                           error_code |-> NONE]

\* C15: validate_backup_path leaves the probed directory as it found it: the same
\* files with the same contents, no probe file left behind, none that was there removed
\* or truncated.
C15_ValidationLeavesNoTrace ==
    [][\A path \in ValidatePaths :
          (last'.op = "validate_backup_path" /\ validate_backup_path(path))
          => backups' = backups]_vars

-----------------------------------------------------------------------------
(* Migration of legacy images *)

\* The file a call of old_path reads
ReadFile(old_path) == OsResolve(NormalizeOldPath(old_path))

ReadFailed(result) == ~result.ok /\ result.err = <<"read">>

SameDescriptor(migrated_val, saved_val) ==
    /\ migrated_val.hash = saved_val.hash
    /\ migrated_val.ext = saved_val.ext
    /\ migrated_val.size = saved_val.size
    /\ migrated_val.new_url = saved_val.url

\* C16: migrate_old_image(p), when a file exists at p and is read with content c, leaves
\* the store and returns hash, ext, size and URL as save_image(c, e) can, e being '.' and
\* the suffix of p, or '.png' when p has none; save_image itself does as SaveImageOutcomes
\* says.
C16_MigrateIsFreshSave ==
    [][/\ \A old_path \in MigratePaths :
             (/\ last'.op = "migrate_old_image"
              /\ migrate_old_image(old_path)
              /\ FileAt(OsResolve(old_path)) # NO_FILE
              /\ ~ReadFailed(last'.result))
             => LET c == FileAt(OsResolve(old_path))
                    e == MigratedExt(OsResolve(old_path))
                IN  \E out \in SaveImageOutcomes(c, e) :
                       /\ images' = out.store
                       /\ last'.result.ok = out.ok
                       /\ out.ok => SameDescriptor(last'.result.val,
                                                    SaveImageResult(Sha256Hex(c), e, c))
       /\ \A buffer \in Buffers, ext \in Exts :
             (last'.op = "save_image" /\ save_image(buffer, ext))
             => \E out \in SaveImageOutcomes(buffer, ext) :
                   /\ images' = out.store
                   /\ last'.result.ok = out.ok
                   /\ out.ok => last'.result.val
                                   = SaveImageResult(Sha256Hex(buffer), ext, buffer)]_vars

\* Two successful migrations that read two distinct files of the same bytes
SameBytesPair(first, second) ==
    /\ ReadFile(first) # ReadFile(second)
    /\ FileAt(ReadFile(first)) = FileAt(ReadFile(second))

SameExt(first, second) ==
    MigratedExt(NormalizeOldPath(first)) = MigratedExt(NormalizeOldPath(second))

\* C17: a successful migration of a file, after a successful migration of another file
\* of the same bytes whose path gives the same extension, writes nothing, leaves the
\* store as it was and returns the descriptor the earlier call returned.
C17_MigrationDedup ==
    [][\A old_path \in MigratePaths :
          (/\ last'.op = "migrate_old_image"
           /\ migrate_old_image(old_path)
           /\ last'.result.ok)
          => \A i \in DOMAIN migrated :
                (/\ SameBytesPair(migrated[i].old_path, old_path)
                 /\ SameExt(migrated[i].old_path, old_path))
                => /\ last'.result.val = migrated[i].val
                   /\ last'.writes = {}
                   /\ images' = images]_vars

\* C17 as stated: the same of any two distinct files of the same bytes, whatever
\* their paths.
C17_DedupWhateverThePath ==
    [][\A old_path \in MigratePaths :
          (/\ last'.op = "migrate_old_image"
           /\ migrate_old_image(old_path)
           /\ last'.result.ok)
          => \A i \in DOMAIN migrated :
                SameBytesPair(migrated[i].old_path, old_path)
                => /\ last'.result.val = migrated[i].val
                   /\ last'.writes = {}
                   /\ images' = images]_vars

C17_TwoFilesOneBlob ==
    /\ last.op = "migrate_old_image"
    /\ last.result.ok
    /\ last.writes = {}
    /\ Len(migrated) = 2
    /\ migrated[2].old_path = last.args[1]
    /\ SameBytesPair(migrated[1].old_path, migrated[2].old_path)
    /\ migrated[1].old_path \in {OLD_A, OLD_B}
    /\ migrated[2].old_path \in {OLD_A, OLD_B}
    /\ migrated[1].val = migrated[2].val
    /\ Cardinality(DOMAIN images) = 1

\* C18: migrate_old_image leaves the file at old_path as it is, there or not and with
\* the same bytes, whether it succeeds, finds no file, or fails to read or to write.
C18_SourceKept ==
    [][\A old_path \in MigratePaths :
          (last'.op = "migrate_old_image" /\ migrate_old_image(old_path))
          => \A file \in {OsResolve(old_path), ReadFile(old_path)} :
                SourceBytes(images', oldFiles', file) = SourceBytes(images, oldFiles, file)]_vars

C18_SourceKeptOnWriteFailure ==
    /\ last.op = "migrate_old_image"
    /\ ~last.result.ok
    /\ last.writes # {}
    /\ FileAt(ReadFile(last.args[1])) = <<1>>

NotFound(result) == ~result.ok /\ IsPrefix(<<"not found: ">>, result.err)

\* C19: migrate_old_image(p) with no file at p returns the not-found error and leaves
\* the store as it was; when the read fails it returns an error and leaves the store
\* as it was.
C19_MissingOrUnreadable ==
    [][\A old_path \in MigratePaths :
          (last'.op = "migrate_old_image" /\ migrate_old_image(old_path))
          => /\ FileAt(OsResolve(old_path)) = NO_FILE
                => NotFound(last'.result) /\ images' = images
             /\ ReadFailed(last'.result) => images' = images]_vars

\* C20: check_old_images_exist(paths) returns as many booleans as paths, the i-th true
\* exactly when a file exists at paths[i], and changes neither the store nor the files.
C20_ExistenceByPath ==
    [][\A paths \in PathLists :
          (last'.op = "check_old_images_exist" /\ check_old_images_exist(paths))
          => /\ last'.result.ok
             /\ Len(last'.result.val) = Len(paths)
             /\ \A i \in 1..Len(paths) :
                   last'.result.val[i] = (FileAt(OsResolve(paths[i])) # NO_FILE)
             /\ images' = images
             /\ oldFiles' = oldFiles]_vars

-----------------------------------------------------------------------------
(* The mutex *)

\* The steps of a command that look at, read or write a file of the store
StoreAccess(t) ==
    command_exists(t) \/ command_look(t) \/ command_create(t) \/ command_write(t)

RestoreStoreAccess(t) == restore_backup_create(t) \/ restore_backup_copy(t)

BackupOwns(p) == mutex = Owner("perform_backup", p)

\* C21: perform_backup and restore_backup hold the mutex only while the images path is
\* read and touch the store without it; the commands of the image store touch the store
\* only while they hold the mutex.
C21_MutexScope ==
    [][/\ \A p \in DOMAIN bk :
             /\ perform_backup_path(p) => mutex' = FREE
             /\ perform_backup_image(p) => ~BackupOwns(p)
       /\ \A t \in Threads :
             /\ restore_backup_path(t) => mutex' = FREE
             /\ RestoreStoreAccess(t) => ~Holds(t)
             /\ StoreAccess(t) => Holds(t)]_vars

\* C21 as stated: no command touches the store while it holds the mutex.
C21_NoStoreAccessUnderMutex ==
    [][/\ \A p \in DOMAIN bk : perform_backup_image(p) => ~BackupOwns(p)
       /\ \A t \in Threads : (StoreAccess(t) \/ RestoreStoreAccess(t)) => ~Holds(t)]_vars

\* a command is in the middle of fs::write, holding the mutex, while perform_backup
\* waits for it to read the images path
C21_BackupWaitsForWriter ==
    \E t \in Threads, p \in DOMAIN bk :
       /\ th[t].pc = "write"
       /\ Holds(t)
       /\ bk[p].pc = "path"

Writing(t) == th[t].pc \in {"write", "copy"}

\* C22: no two commands are writing files of the store at the same time.
C22_WritesSerialized ==
    \A t1, t2 \in Threads : (t1 # t2 /\ Writing(t1)) => ~Writing(t2)

\* The name an entry of the archive gives its blob is the digest of the entry's bytes
EntryIsBlob(e) ==
    \E ext \in Exts : StripPrefix(e.name, IMAGES_PREFIX) = Sha256Hex(e.bytes) \o ext

\* C27: every images/ entry of an archive finished by perform_backup holds the complete
\* bytes of a blob, whatever the commands running beside the call do.
C27_ArchivedBlobsComplete ==
    [][\A p \in DOMAIN bk :
          (perform_backup_finish(p) /\ bk'[p].pc = "cleanup")
          => LET entries == backups'[bk[p].filename].entries
             IN  \A i \in 1..Len(entries) :
                    IsImageEntry(entries[i].name) => EntryIsBlob(entries[i])]_vars

----------------------------------------------------------------------------
(* Overlapping perform_backup calls *)

\* the call is between File::create and zip.finish()
WritingArchive(q) == bk[q].pc \in {"data", "images"}

\* the archive of call p is there, finished, and starts with the call's own data.json
OwnArchive(p) ==
    /\ bk[p].filename \in DOMAIN backups'
    /\ backups'[bk[p].filename].finished
    /\ backups'[bk[p].filename].entries # <<>>
    /\ Head(backups'[bk[p].filename].entries) =
          [name |-> DATA_JSON, bytes |-> Utf8Encode(bk[p].data)]

\* C23: of two overlapping perform_backup calls started in different seconds (with
\* max_backups >= 2) neither writes, truncates or deletes the archive of the other,
\* and each that returns Ok leaves its own finished archive holding its own data.json.
C23_OverlappingBackupsApart ==
    [][\A p, q \in DOMAIN bk :
          (/\ p # q
           /\ bk'[p] # bk[p]
           /\ bk[p].pc \notin {"idle", "path"}
           /\ bk[p].max_backups >= 2
           /\ bk[q].max_backups >= 2
           /\ bk[q].pc # "idle"
           /\ bk[p].filename # bk[q].filename)
          => /\ (WritingArchive(q) /\ bk[q].filename \in DOMAIN backups)
                   => (/\ bk[q].filename \in DOMAIN backups'
                       /\ backups'[bk[q].filename] = backups[bk[q].filename])
             /\ (perform_backup_cleanup(p) /\ last'.result.ok) => OwnArchive(p)]_vars

\* C26: whenever perform_backup returns Ok(filename), a finished archive of that name
\* is in the backup directory, whatever max_backups is and whatever the directory
\* held before.
C26_OkMeansArchiveExists ==
    [][\A p \in DOMAIN bk :
          (/\ last'.op = "perform_backup"
           /\ perform_backup_cleanup(p)
           /\ last'.result = Ok(bk[p].filename))
          => (/\ bk[p].filename \in DOMAIN backups'
              /\ backups'[bk[p].filename].finished)]_vars

----------------------------------------------------------------------------
(* The litepad:// protocol *)

\* the request names a file of the blob store
NamesBlob(path) ==
    StartsWith(path, URI_IMAGES) /\ DestPath(StripPrefix(path, URI_IMAGES)) \in DOMAIN images

\* C24: a request for the URL save_image(c, e) has just returned is answered with 200
\* and body c; a request for /images/{name} with no file {name} in the store, or for a
\* path that does not start with /images/, is answered with 404 and an empty body; a
\* file that is there but cannot be read gives 500.
C24_ReferenceUrlsResolve ==
    [][\A path \in RequestPaths :
          (last'.op = "litepad" /\ litepad_request(path))
          => /\ (/\ last.op = "save_image"
                 /\ last.result.ok
                 /\ path = UrlPath(last.result.val.url)
                 /\ faults' = faults)
                   => (last'.result.val.status = 200 /\ last'.result.val.body = last.args[1])
             /\ ~NamesBlob(path) => last'.result = NotFoundResponse
             /\ (NamesBlob(path) /\ faults' # faults) => last'.result.val.status = 500]_vars

----------------------------------------------------------------------------
(* Archive names *)

TimeOf(name) == CHOOSE t \in Stamps : BackupName(t) = name

\* C25: the archive name of an earlier second is strictly smaller, as a string, than
\* the name of a later second, so the descending sort of cleanup_old_backups lists the
\* archives newest first.
C25_NamesOrderedByTime ==
    /\ last.op = "backup_names"
          => LET t1 == last.args[1]
                 t2 == last.args[2]
                 n1 == last.result.val[1]
                 n2 == last.result.val[2]
             IN  t1 < t2 => (StrLess(n1, n2) /\ ~StrLess(n2, n1) /\ n1 # n2)
    /\ last.op = "sort_backups"
          => LET sorted == last.result.val
             IN  /\ Len(sorted) = Cardinality(last.args[1])
                 /\ \A i, j \in 1..Len(sorted) :
                       i < j => TimeOf(sorted[i]) > TimeOf(sorted[j])

\* names of a one-digit and of a two-digit second have been compared and sorted
C25_CarrySorted ==
    /\ last.op = "sort_backups"
    /\ \E t1, t2 \in last.args[1] : t1 < 10 /\ t2 >= 10
    /\ Len(last.result.val) = 3

----------------------------------------------------------------------------
(* restore_backup and the files outside the store *)

\* C28: restore_backup creates and overwrites files only under images_path, whatever
\* the entry names of the archive are: the files outside the store are as they were.
C28_RestoreStaysInStore ==
    [][\A filename \in BackupFiles :
          (last'.op = "restore_backup" /\ restore_backup(filename))
          => oldFiles' = oldFiles]_vars

----------------------------------------------------------------------------
(* The global shortcut *)

NoReleaseBetween(i, j) == \A k \in (i + 1)..(j - 1) : toggled[k].state # "Released"

\* C29: between two consecutive Released events of Alt+X toggle_window is called at
\* most once, a Released event never calls it, and the first Pressed after a Released
\* always calls it.
C29_ShortcutDebounce ==
    \A i \in 1..Len(toggled) :
       /\ toggled[i].state = "Released" => ~toggled[i].toggle
       /\ (i > 1 /\ toggled[i].state = "Pressed" /\ toggled[i - 1].state = "Released")
             => toggled[i].toggle
       /\ \A j \in (i + 1)..Len(toggled) :
             (toggled[i].toggle /\ toggled[j].toggle) => ~NoReleaseBetween(i, j)

\* the key was pressed, held (a repeated Pressed), released and pressed again
C29_HeldReleasedPressed ==
    /\ Len(toggled) >= 4
    /\ toggled[1].state = "Pressed" /\ toggled[1].toggle
    /\ toggled[2].state = "Pressed" /\ ~toggled[2].toggle
    /\ toggled[3].state = "Released"
    /\ toggled[4].state = "Pressed" /\ toggled[4].toggle /\ toggled[4].visible

----------------------------------------------------------------------------
(* Versions *)

\* Precedence of semantic versions: major, minor, patch; a pre-release comes before
\* its release, and pre-releases of one version are ordered by their number
SemverLess(a, b) ==
    \/ a.major < b.major
    \/ a.major = b.major /\ a.minor < b.minor
    \/ a.major = b.major /\ a.minor = b.minor /\ a.patch < b.patch
    \/ /\ a.major = b.major /\ a.minor = b.minor /\ a.patch = b.patch
       /\ a.beta # 0
       /\ (b.beta = 0 \/ a.beta < b.beta)

\* C30: compare_versions(current, latest) is true exactly when latest is a strictly
\* higher semantic version than current (a leading v ignored, a pre-release suffix not
\* counted as a higher patch), and it is never true for both (a, b) and (b, a).
C30_CompareFollowsSemver ==
    \A a, b \in SemVers, av, bv \in BOOLEAN :
       (/\ last.op = "check_for_updates"
        /\ last.args = <<VersionString(a, av), VersionString(b, bv)>>)
       => /\ last.result.val.has_update = SemverLess(a, b)
          /\ ~(last.result.val.has_update
               /\ compare_versions(VersionString(b, bv), VersionString(a, av)))

====
